---------------------------- MODULE Spec2Model ----------------------------
(***************************************************************************)
(* Verification model of autosync: the lifecycle manager                   *)
(* (sync_manager.py), the state store (state_db.py) and the sync engine    *)
(* (sync_engine.py).                                                       *)
(*                                                                         *)
(* Ten specifications share the variables below.  Each one moves only     *)
(* its own groups of variables and leaves the other groups at their        *)
(* initial value:                                                          *)
(*   SpecMgr   - SyncManager: start / stop / trigger_sync / _poll_loop     *)
(*   SpecMgrLive - SpecMgr with the fairness of its threads                *)
(*   SpecSave  - save_state / load_state on a POSIX file system            *)
(*   SpecEng   - full_sync / delta_sync and the retry queue                *)
(*   SpecWatch - the watcher's handlers beside the passes                  *)
(*   SpecPoll  - the passes of _poll_loop alone: every pass is delta_sync  *)
(*   SpecLoad  - save_state / load_state on a state file found in any      *)
(*               condition                                                 *)
(*   SpecPollLive - SpecPoll with passes that go on and run to their end    *)
(*   SpecHist  - log_event and get_history on the history file             *)
(*   SpecHub   - emit, subscribe and unsubscribe of the log stream handler  *)
(***************************************************************************)
EXTENDS Integers, Sequences, FiniteSets, TLC

(***************************************************************************)
(* Bounds of the model                                                     *)
(***************************************************************************)
NCallers == 1
MaxTrig == 2
MaxPoll == 2
MaxObs == 2
MaxFail == 4

Callers == 1..NCallers
TrigIds == 1..MaxTrig
PollIds == 1..MaxPoll
ObsIds == 1..MaxObs

\* threads that log events, events logged in a run, and the largest limit
\* and offset asked of get_history
NLoggers == 2
MaxLogged == 5
MaxAsk == 4
\* sync_history.MAX_ENTRIES, 1000 in the code
MAX_ENTRIES == 3

Loggers == 1..NLoggers

\* subscribers of the log stream and records emitted in a run
NSubs == 2
MaxEmit == 5
\* SSELogHandler(maxlen=100) and queue.Queue(maxsize=200) in the code
maxlen == 2
maxsize == 3

SubIds == 1..NSubs

NSavers == 1
MaxVer == 2
DocLen == 2
MaxTmp == 1

Savers == 1..NSavers
Versions == 1..MaxVer
StatePath == 0
TmpNames == 1..MaxTmp
\* path + ".corrupt." + the UTC stamp
BackupName == MaxTmp + 1
Names == 0..BackupName
NoFile == <<0>>
Live == <<0>>

None == "none"
NoThread == 0
Free == <<"free", 0>>

VARIABLES
  \* ---- SyncManager fields (sync_manager.py:21-32) ----
  running,        \* self._running
  connected,      \* self._connected
  observer,       \* self._observer : NoThread or the id of a watcher
  poll_thread,    \* self._poll_thread : NoThread or the id of a poll thread
  stop_event,     \* self._stop_event.is_set()
  sync_lock,      \* self._sync_lock : Free or the holder <<kind, id>>
  error,          \* self._error
  consecutive_failures,  \* self._consecutive_failures
  \* ---- threads around the manager ----
  cpc,            \* position of each caller of start()/stop()/trigger_sync()
  ret,            \* the value last returned by start()/stop()/trigger_sync()
  tpc,            \* position of each trigger thread (_run)
  ppc,            \* position of each poll thread (_poll_loop)
  watchers,       \* ids of the watchdog observers that are running
  notified,       \* error notifications sent in the current run of failures
  late,           \* history: the live trigger threads that were made while
                  \* a pass was running
  \* ---- the directory of the state file (state_db.py) ----
  files,          \* file name -> the chunks of the file (NoFile: no such file)
  spc,            \* position of each thread inside save_state
  sver,           \* version of the document the thread is saving
  stmp,           \* tmp_path of the thread (a file name)
  sres,           \* how the thread's last save_state ended
  rpc,            \* position of the thread that is inside load_state
  rold,           \* the text of the file the reader has open, once that file
                  \* has been replaced under its name (Live: not replaced)
  rbuf,           \* the chunks the reader has read
  rres,           \* what the reader's last load_state found
  \* ---- the two trees and the clock (sync_engine.py) ----
  local,          \* cfg.LOCAL_FOLDER: path -> [c: content, m: mtime]
  remote,         \* the shared OneDrive folder: path -> [c, m]
  since,          \* the server's delta cursors: cursor -> paths changed since
  now,            \* time.time(), in seconds
  db,             \* the document at cfg.STATE_DB_PATH
  recently_synced,  \* sync_engine.recently_synced: path -> time of the mark
  \* ---- the reconciliation pass that is running ----
  epc,            \* its position: "idle" when no pass runs
  mode,           \* "full" (full_sync) or "delta" (delta_sync)
  state,          \* the `state` dict the pass loaded and mutates
  queue,          \* _process_retry_queue: the items not yet looked at
  remaining,      \* _process_retry_queue: `remaining`
  remote_files,   \* full_sync: the remote listing
  local_files,    \* full_sync: the local walk
  actions,        \* full_sync: the actions emitted, <<action_type, path>>
  done,           \* full_sync: the actions that _exec_action has finished
  changes,        \* delta_sync: the changes not yet processed
  new_delta_link, \* delta_sync: the cursor the query returned
  error_count,    \* the pass's error_count
  \* ---- budgets of the environment ----
  nenv,           \* edits made by the user on either side
  nfault,         \* failed transfers, requests and file operations
  \* ---- history ----
  back_to_back,   \* "yes": a full_sync has run from start to end and since
                  \* it started no file was edited by the user, no time has
                  \* passed, no delta_sync has run and, since it returned,
                  \* nothing has failed; "dirty": the pass that is running
                  \* has been disturbed in one of these ways; else "no"
  \* ---- the watchdog observer thread (file_watcher.py) ----
  fsevents,       \* the events not yet dispatched, <<kind, path>>
  wpc,            \* the handler the thread is in: "idle", "change", "delete"
  wpath,          \* rel_path of that handler
  wstate,         \* the `state` dict that handler loaded
  \* ---- the history file (sync_history.py) ----
  hfile,          \* the lines of HISTORY_PATH, an event number each
  hlock,          \* sync_history._lock: 0 or the thread that holds it
  hpc,            \* position of each thread inside log_event
  hlines,         \* _rotate_if_needed: `lines` of each thread
  hlogged,        \* history: the events appended so far, in append order
  hgot,           \* the last call of get_history: what it read and returned
  \* ---- the log stream hub (log_handler.py) ----
  sse_history,    \* SSELogHandler._history, a record number each
  sse_subscribers,\* SSELogHandler._subscribers, in order of subscription
  sse_lock,       \* SSELogHandler._lock: 0 or the subscriber inside subscribe
  sq,             \* the queue of each subscriber
  subpc,          \* "none", "backfilled", "subscribed" or "gone"
  nemit,          \* history: the number of records emitted
  srecv,          \* history: what each subscriber has taken from its queue
  sdrop,          \* history: the records that found the queue full
  sold,           \* history: _history when subscribe was called
  ssince,         \* history: nemit when subscribe was called
  \* ---- the user ----
  user_removed    \* history: the paths the user deleted in cfg.LOCAL_FOLDER
                  \* and has not written again

mgrVars == <<running, connected, observer, poll_thread, stop_event, sync_lock,
             error, consecutive_failures, cpc, ret, tpc, ppc, watchers,
             notified, late>>

saveVars == <<files, spc, sver, stmp, sres, rpc, rold, rbuf, rres>>

passVars == <<epc, mode, state, queue, remaining, remote_files, local_files,
              actions, done, changes, new_delta_link, error_count>>

engVars == <<local, remote, since, now, db, recently_synced, passVars, nenv,
             nfault, back_to_back>>

watchVars == <<fsevents, wpc, wpath, wstate>>

histVars == <<hfile, hlock, hpc, hlines, hlogged, hgot>>

hubVars == <<sse_history, sse_subscribers, sse_lock, sq, subpc, nemit, srecv, sdrop, sold, ssince>>

vars == <<mgrVars, saveVars, engVars, watchVars, histVars, hubVars, user_removed>>

\* what the actions of one component leave alone
notMgr == <<saveVars, engVars, watchVars, histVars, hubVars, user_removed>>
notSave == <<mgrVars, engVars, watchVars, histVars, hubVars, user_removed>>
notUser == <<mgrVars, saveVars, histVars, hubVars>>
notEng == <<notUser, watchVars, user_removed>>
notWatch == <<notUser, user_removed>>
notHist == <<mgrVars, saveVars, engVars, watchVars, hubVars, user_removed>>
notHub == <<mgrVars, saveVars, engVars, watchVars, histVars, user_removed>>

(***************************************************************************)
(* SyncManager.__init__                                                    *)
(***************************************************************************)
MgrInit ==
  /\ running = FALSE
  /\ connected = FALSE
  /\ observer = NoThread
  /\ poll_thread = NoThread
  /\ stop_event = FALSE
  /\ sync_lock = Free
  /\ error = None
  /\ consecutive_failures = 0
  /\ cpc = [c \in Callers |-> "idle"]
  /\ ret = None
  /\ tpc = [t \in TrigIds |-> "dead"]
  /\ ppc = [p \in PollIds |-> "dead"]
  /\ watchers = {}
  /\ notified = 0
  /\ late = {}

(***************************************************************************)
(* `with self._sync_lock:` - threading.Lock acquire and release            *)
(***************************************************************************)
\* the id a new thread or observer gets: the lowest one not in use
\* (0 when all are in use, and then nothing is created)
FirstFree(S) == IF S = {} THEN 0 ELSE CHOOSE x \in S : \A y \in S : x <= y

LockFree == sync_lock = Free

Acquire(kind, id) == LockFree /\ sync_lock' = <<kind, id>>

Release == sync_lock' = Free

\* _record_successful_sync: the failure counter returns to 0
RecordSuccessfulSync ==
  /\ consecutive_failures' = 0
  /\ notified' = 0

(***************************************************************************)
(* SyncManager.start, lines 40-62: the checks before the initial sync.     *)
(* link: cfg.SHARE_LINK is set; valid: validate_share_link's answer.       *)
(***************************************************************************)
\* start without the test of line 40: a running manager is started again
StartCheckAnyway(c) ==
  /\ UNCHANGED <<notMgr, late>>
  /\ cpc[c] = "idle"
  /\ \E link \in BOOLEAN, valid \in BOOLEAN :
       IF ~link
         THEN /\ ret' = "no_share_link"
              /\ UNCHANGED <<cpc, connected, error, consecutive_failures, notified>>
       ELSE IF ~valid
         THEN /\ error' = "validation_failed"
              /\ ret' = "validation_failed"
              /\ UNCHANGED <<cpc, connected, consecutive_failures, notified>>
       ELSE /\ connected' = TRUE
            /\ error' = None
            /\ RecordSuccessfulSync
            /\ cpc' = [cpc EXCEPT ![c] = "start_lock"]
            /\ UNCHANGED ret
  /\ UNCHANGED <<running, observer, poll_thread, stop_event, sync_lock, tpc,
                 ppc, watchers>>

StartCheck(c) ==
  /\ UNCHANGED <<notMgr, late>>
  /\ cpc[c] = "idle"
  /\ \E link \in BOOLEAN, valid \in BOOLEAN :
       IF running
         THEN /\ ret' = "already_running"
              /\ UNCHANGED <<cpc, connected, error, consecutive_failures, notified>>
       ELSE IF ~link
         THEN /\ ret' = "no_share_link"
              /\ UNCHANGED <<cpc, connected, error, consecutive_failures, notified>>
       ELSE IF ~valid
         THEN /\ error' = "validation_failed"
              /\ ret' = "validation_failed"
              /\ UNCHANGED <<cpc, connected, consecutive_failures, notified>>
       ELSE /\ connected' = TRUE
            /\ error' = None
            /\ RecordSuccessfulSync
            /\ cpc' = [cpc EXCEPT ![c] = "start_lock"]
            /\ UNCHANGED ret
  /\ UNCHANGED <<running, observer, poll_thread, stop_event, sync_lock, tpc,
                 ppc, watchers>>

\* start, line 66: `with self._sync_lock` is entered
StartAcquire(c) ==
  /\ UNCHANGED <<notMgr, late>>
  /\ cpc[c] = "start_lock"
  /\ Acquire("start", c)
  /\ cpc' = [cpc EXCEPT ![c] = "start_pass"]
  /\ UNCHANGED <<running, connected, observer, poll_thread, stop_event, error,
                 consecutive_failures, ret, tpc, ppc, watchers, notified>>

\* start, lines 67-75: the initial full_sync returns (ok) or raises
StartPass(c) ==
  /\ UNCHANGED <<notMgr, late>>
  /\ cpc[c] = "start_pass"
  /\ \E ok \in BOOLEAN :
       IF ok THEN RecordSuccessfulSync
             ELSE UNCHANGED <<consecutive_failures, notified>>
  /\ Release
  /\ cpc' = [cpc EXCEPT ![c] = "start_fin"]
  /\ UNCHANGED <<running, connected, observer, poll_thread, stop_event, error,
                 ret, tpc, ppc, watchers>>

\* start, lines 77-87: watcher, poll thread, RUNNING
StartFinish(c) ==
  /\ UNCHANGED <<notMgr, late>>
  /\ cpc[c] = "start_fin"
  /\ \E o \in ObsIds, p \in PollIds :
       /\ o = FirstFree(ObsIds \ watchers)
       /\ p = FirstFree({x \in PollIds : ppc[x] = "dead"})
       /\ observer' = o
       /\ watchers' = watchers \cup {o}
       /\ stop_event' = FALSE
       /\ poll_thread' = p
       /\ ppc' = [ppc EXCEPT ![p] = "sleep"]
  /\ running' = TRUE
  /\ ret' = "ok"
  /\ cpc' = [cpc EXCEPT ![c] = "idle"]
  /\ UNCHANGED <<connected, sync_lock, error, consecutive_failures, tpc,
                 notified>>

(***************************************************************************)
(* SyncManager.stop, lines 91-98: signal the loop, stop the watcher        *)
(***************************************************************************)
StopSignal(c) ==
  /\ UNCHANGED <<notMgr, late>>
  /\ cpc[c] = "idle"
  /\ IF ~running
       THEN /\ ret' = "not_running"
            /\ UNCHANGED <<cpc, stop_event, observer, watchers>>
       ELSE /\ stop_event' = TRUE
            /\ watchers' = watchers \ {observer}
            /\ observer' = NoThread
            /\ cpc' = [cpc EXCEPT ![c] = "stop_join"]
            /\ UNCHANGED ret
  /\ UNCHANGED <<running, connected, poll_thread, sync_lock, error,
                 consecutive_failures, tpc, ppc, notified>>

\* join(timeout=10) returns: the thread has ended, or 10 s have passed while
\* it holds or awaits the lock, or sleeps with the stop flag cleared again
JoinReturns(p) ==
  IF p = NoThread THEN TRUE
  ELSE ppc[p] \in {"dead", "wait_lock", "in_pass"}
         \/ (ppc[p] = "sleep" /\ ~stop_event)

\* stop, lines 100-108
StopJoin(c) ==
  /\ UNCHANGED <<notMgr, late>>
  /\ cpc[c] = "stop_join"
  /\ JoinReturns(poll_thread)
  /\ poll_thread' = NoThread
  /\ running' = FALSE
  /\ connected' = FALSE
  /\ ret' = "ok"
  /\ cpc' = [cpc EXCEPT ![c] = "idle"]
  /\ UNCHANGED <<observer, stop_event, sync_lock, error, consecutive_failures,
                 tpc, ppc, watchers, notified>>

(***************************************************************************)
(* SyncManager.trigger_sync, lines 112-127, and its thread _run            *)
(***************************************************************************)
TriggerSync(c) ==
  /\ UNCHANGED notMgr
  /\ cpc[c] = "idle"
  /\ IF ~running
       THEN /\ ret' = "not_running"
            /\ UNCHANGED <<tpc, late>>
       ELSE /\ \E t \in TrigIds :
                 /\ t = FirstFree({x \in TrigIds : tpc[x] = "dead"})
                 /\ tpc' = [tpc EXCEPT ![t] = "wait_lock"]
                 /\ late' = IF LockFree THEN late ELSE late \cup {t}
            /\ ret' = "ok"
  /\ UNCHANGED <<running, connected, observer, poll_thread, stop_event,
                 sync_lock, error, consecutive_failures, cpc, ppc, watchers,
                 notified>>

\* _run without line 116: the thread calls full_sync without taking the lock
TrigAcquireNoLock(t) ==
  /\ UNCHANGED <<notMgr, late>>
  /\ tpc[t] = "wait_lock"
  /\ tpc' = [tpc EXCEPT ![t] = "in_pass"]
  /\ UNCHANGED <<running, connected, observer, poll_thread, stop_event,
                 sync_lock, error, consecutive_failures, cpc, ret, ppc,
                 watchers, notified>>

\* _run, line 116
TrigAcquire(t) ==
  /\ UNCHANGED <<notMgr, late>>
  /\ tpc[t] = "wait_lock"
  /\ Acquire("trig", t)
  /\ tpc' = [tpc EXCEPT ![t] = "in_pass"]
  /\ UNCHANGED <<running, connected, observer, poll_thread, stop_event, error,
                 consecutive_failures, cpc, ret, ppc, watchers, notified>>

\* _run, lines 117-123: full_sync returns or raises; the thread ends
TrigPass(t) ==
  /\ UNCHANGED notMgr
  /\ late' = late \ {t}
  /\ tpc[t] = "in_pass"
  /\ \E ok \in BOOLEAN :
       IF ok THEN RecordSuccessfulSync
             ELSE UNCHANGED <<consecutive_failures, notified>>
  /\ Release
  /\ tpc' = [tpc EXCEPT ![t] = "dead"]
  /\ UNCHANGED <<running, connected, observer, poll_thread, stop_event, error,
                 cpc, ret, ppc, watchers>>

(***************************************************************************)
(* SyncManager._poll_loop                                                  *)
(***************************************************************************)
\* lines 198-210: the thread sleeps poll_interval seconds, looking at the
\* stop flag every second; it returns when the flag is set
PollWake(p) ==
  /\ UNCHANGED <<notMgr, late>>
  /\ ppc[p] = "sleep"
  /\ ppc' = [ppc EXCEPT ![p] = IF stop_event THEN "dead" ELSE "wait_lock"]
  /\ UNCHANGED <<running, connected, observer, poll_thread, stop_event,
                 sync_lock, error, consecutive_failures, cpc, ret, tpc,
                 watchers, notified>>

\* line 212
PollAcquire(p) ==
  /\ UNCHANGED <<notMgr, late>>
  /\ ppc[p] = "wait_lock"
  /\ Acquire("poll", p)
  /\ ppc' = [ppc EXCEPT ![p] = "in_pass"]
  /\ UNCHANGED <<running, connected, observer, poll_thread, stop_event, error,
                 consecutive_failures, cpc, ret, tpc, watchers, notified>>

\* a _poll_loop without the try / except of lines 213-223: the exception
\* of delta_sync ends the thread
PollPassUncaught(p) ==
  /\ UNCHANGED <<notMgr, late>>
  /\ ppc[p] = "in_pass"
  /\ \E ok \in BOOLEAN :
       IF ok
         THEN RecordSuccessfulSync /\ ppc' = [ppc EXCEPT ![p] = "sleep"]
         ELSE /\ UNCHANGED <<consecutive_failures, notified>>
              /\ ppc' = [ppc EXCEPT ![p] = "dead"]
  /\ Release
  /\ UNCHANGED <<running, connected, observer, poll_thread, stop_event, error,
                 cpc, ret, tpc, watchers>>

\* lines 213-223: delta_sync returns or raises
PollPass(p) ==
  /\ UNCHANGED <<notMgr, late>>
  /\ ppc[p] = "in_pass"
  /\ \E ok \in BOOLEAN :
       IF ok
         THEN RecordSuccessfulSync
         ELSE /\ consecutive_failures < MaxFail
              /\ consecutive_failures' = consecutive_failures + 1
              /\ notified' = IF consecutive_failures + 1 >= 3
                               THEN notified + 1 ELSE notified
  /\ Release
  /\ ppc' = [ppc EXCEPT ![p] = "sleep"]
  /\ UNCHANGED <<running, connected, observer, poll_thread, stop_event, error,
                 cpc, ret, tpc, watchers>>

MgrNext ==
  \/ \E c \in Callers : StartCheck(c)
  \/ \E c \in Callers : StartAcquire(c)
  \/ \E c \in Callers : StartPass(c)
  \/ \E c \in Callers : StartFinish(c)
  \/ \E c \in Callers : StopSignal(c)
  \/ \E c \in Callers : StopJoin(c)
  \/ \E c \in Callers : TriggerSync(c)
  \/ \E t \in TrigIds : TrigAcquire(t)
  \/ \E t \in TrigIds : TrigPass(t)
  \/ \E p \in PollIds : PollWake(p)
  \/ \E p \in PollIds : PollAcquire(p)
  \/ \E p \in PollIds : PollPass(p)


(***************************************************************************)
(* state_db.py on a POSIX file system.  A document is written as DocLen    *)
(* chunks; the document of version v is DocLen chunks v.  A file is a      *)
(* directory entry naming an inode; an open descriptor keeps its inode.    *)
(***************************************************************************)
Doc(v) == [i \in 1..DocLen |-> v]

\* json.load: the text parses iff it is a whole document
Parses(text) == \E v \in Versions : text = Doc(v)

SaveInit ==
  /\ files = [n \in Names |-> NoFile]
  /\ spc = [s \in Savers |-> "idle"]
  /\ sver = [s \in Savers |-> 0]
  /\ stmp = [s \in Savers |-> 0]
  /\ sres = [s \in Savers |-> "none"]
  /\ rpc = "idle"
  /\ rold = Live
  /\ rbuf = <<>>
  /\ rres = "none"

\* the texts a state file can be found to hold: whole documents and texts
\* that json.load rejects
StoredTexts == UNION {[1..k -> Versions] : k \in 0..DocLen}

\* the state file was left behind in any condition, or there is none
LoadInit ==
  /\ \E t \in StoredTexts \cup {NoFile} :
       files = [n \in Names |-> IF n = StatePath THEN t ELSE NoFile]
  /\ spc = [s \in Savers |-> "idle"]
  /\ sver = [s \in Savers |-> 0]
  /\ stmp = [s \in Savers |-> 0]
  /\ sres = [s \in Savers |-> "none"]
  /\ rpc = "idle"
  /\ rold = Live
  /\ rbuf = <<>>
  /\ rres = "none"

\* what save_state would be with open(path, "w") in place of the temp file
SaveInPlace(s) ==
  /\ UNCHANGED notSave
  /\ spc[s] = "idle"
  /\ \E v \in Versions :
       /\ files' = [files EXCEPT ![StatePath] = <<>>]
       /\ sver' = [sver EXCEPT ![s] = v]
       /\ stmp' = [stmp EXCEPT ![s] = StatePath]
  /\ spc' = [spc EXCEPT ![s] = "opened"]
  /\ sres' = [sres EXCEPT ![s] = "none"]
  /\ UNCHANGED <<rpc, rold, rbuf, rres>>

\* save_state, line 38: tempfile.mkstemp makes a new empty file under a
\* name not in use and returns it open; v is the state to be saved
SaveMkstemp(s) ==
  /\ UNCHANGED notSave
  /\ spc[s] = "idle"
  /\ \E v \in Versions, n \in TmpNames :
       /\ n = FirstFree({x \in TmpNames : files[x] = NoFile})
       /\ files' = [files EXCEPT ![n] = <<>>]
       /\ sver' = [sver EXCEPT ![s] = v]
       /\ stmp' = [stmp EXCEPT ![s] = n]
  /\ spc' = [spc EXCEPT ![s] = "opened"]
  /\ sres' = [sres EXCEPT ![s] = "none"]
  /\ UNCHANGED <<rpc, rold, rbuf, rres>>

\* lines 40-41: json.dump writes the next chunk; after the last one the
\* with block closes the file
SaveWrite(s) ==
  /\ UNCHANGED notSave
  /\ spc[s] = "opened"
  /\ files' = [files EXCEPT ![stmp[s]] = Append(@, sver[s])]
  /\ spc' = [spc EXCEPT ![s] =
               IF Len(files[stmp[s]]) + 1 = DocLen THEN "written" ELSE "opened"]
  /\ UNCHANGED <<sver, stmp, sres, rpc, rold, rbuf, rres>>

\* the thread has left save_state: its locals are gone
SaveReturn(s, how) ==
  /\ sres' = [sres EXCEPT ![s] = how]
  /\ spc' = [spc EXCEPT ![s] = "idle"]
  /\ sver' = [sver EXCEPT ![s] = 0]
  /\ stmp' = [stmp EXCEPT ![s] = 0]

\* line 42: os.replace(tmp_path, path), one atomic rename: the name path
\* now means the temp file; a reader that has the old file open keeps it
SaveReplace(s) ==
  /\ UNCHANGED notSave
  /\ spc[s] = "written"
  /\ files' = [n \in Names |-> IF n = StatePath THEN files[stmp[s]]
                               ELSE IF n = stmp[s] THEN NoFile ELSE files[n]]
  /\ rold' = IF rpc = "reading" /\ rold = Live /\ stmp[s] # StatePath
               THEN files[StatePath] ELSE rold
  /\ SaveReturn(s, "returned")
  /\ UNCHANGED <<rpc, rbuf, rres>>

\* lines 43-49: json.dump, a write or os.replace raises; the handler
\* unlinks tmp_path and raises again
SaveFail(s) ==
  /\ UNCHANGED notSave
  /\ spc[s] \in {"opened", "written"}
  /\ files' = [files EXCEPT ![stmp[s]] = NoFile]
  /\ SaveReturn(s, "raised")
  /\ UNCHANGED <<rpc, rold, rbuf, rres>>

\* the process is killed: every thread is gone, the files stay as they are
Crash ==
  /\ UNCHANGED notSave
  /\ \E s \in Savers : spc[s] \in {"opened", "written"}
  /\ spc' = [s \in Savers |-> "idle"]
  /\ sres' = [s \in Savers |-> IF spc[s] = "idle" THEN sres[s] ELSE "killed"]
  /\ sver' = [s \in Savers |-> 0]
  /\ stmp' = [s \in Savers |-> 0]
  /\ rpc' = "idle"
  /\ rold' = Live
  /\ rbuf' = <<>>
  /\ UNCHANGED <<files, rres>>

\* load_state, lines 13-16: no file, the empty state; else the file is opened
LoadOpen ==
  /\ UNCHANGED notSave
  /\ rpc = "idle"
  /\ IF files[StatePath] = NoFile
       THEN rres' = "empty" /\ UNCHANGED rpc
       ELSE rpc' = "reading" /\ UNCHANGED rres
  /\ UNCHANGED <<files, spc, sver, stmp, sres, rold, rbuf>>

\* the text of the file the reader has open
OpenText == IF rold = Live THEN files[StatePath] ELSE rold

\* a load_state that returns the empty state without the backup copy
LoadReadNoBackup ==
  /\ UNCHANGED notSave
  /\ rpc = "reading"
  /\ IF OpenText # NoFile /\ Len(rbuf) < Len(OpenText)
       THEN /\ rbuf' = Append(rbuf, OpenText[Len(rbuf) + 1])
            /\ UNCHANGED <<rpc, rold, rres>>
       ELSE /\ rres' = IF Parses(rbuf) THEN "document" ELSE "corrupt"
            /\ rpc' = "idle"
            /\ rold' = Live
            /\ rbuf' = <<>>
  /\ UNCHANGED <<files, spc, sver, stmp, sres>>

\* line 17: json.load reads the file to its end, then parses;
\* lines 27-32: a text that does not parse is corrupt: shutil.copy2 copies
\* the file that path names at that moment to the backup name, and the
\* result "corrupt" is the _empty_state() of line 32
LoadRead ==
  /\ UNCHANGED notSave
  /\ rpc = "reading"
  /\ IF OpenText # NoFile /\ Len(rbuf) < Len(OpenText)
       THEN /\ rbuf' = Append(rbuf, OpenText[Len(rbuf) + 1])
            /\ UNCHANGED <<rpc, rold, rres, files>>
       ELSE /\ rres' = IF Parses(rbuf) THEN "document" ELSE "corrupt"
            /\ files' = IF Parses(rbuf) THEN files
                        ELSE [files EXCEPT ![BackupName] = files[StatePath]]
            /\ rpc' = "idle"
            /\ rold' = Live
            /\ rbuf' = <<>>
  /\ UNCHANGED <<spc, sver, stmp, sres>>

SaveNext ==
  \/ \E s \in Savers : SaveMkstemp(s)
  \/ \E s \in Savers : SaveWrite(s)
  \/ \E s \in Savers : SaveReplace(s)
  \/ \E s \in Savers : SaveFail(s)
  \/ Crash
  \/ LoadOpen
  \/ LoadRead

(***************************************************************************)
(* sync_engine.py: names of paths.  A rel_path is modelled by the sequence *)
(* of its characters.  The path <<i>> is the i-th name of BaseName; the    *)
(* path p \o <<t>> is the conflict copy of p made at second t.             *)
(***************************************************************************)
MaxEnv == 2
MaxFaults == 1
MaxTicks == 1
NContents == 2
\* edits, failures and minutes together
MaxEvents == 3

BaseName ==
  << <<"a", ".", "t">>,
     <<"j", ".", "t", "m", "p">>,
     <<"x", "/", "b">> >>

BasePaths == {<<i>> : i \in 1..Len(BaseName)}

\* config.py:27, the default of cfg.IGNORE_PATTERNS
IGNORE_PATTERNS ==
  << <<"~", "$", "*">>,
     <<"*", ".", "t", "m", "p">>,
     <<".", "D", "S", "_", "S", "t", "o", "r", "e">>,
     <<"T", "h", "u", "m", "b", "s", ".", "d", "b">> >>

\* config.py:76-77 as set by the user: every folder but x is synced
SYNC_FOLDERS == << >>
EXCLUDE_FOLDERS == << <<"/", "x", "/">> >>

\* config.py:50
CONFLICT_SUFFIX == <<"_CONFLICT">>

\* the names of the state file, sync_engine.py:111
STATE_FILE_NAME ==
  <<"s", "y", "n", "c", "_", "s", "t", "a", "t", "e", ".", "j", "s", "o", "n">>
STATE_FILE_PREFIX ==
  <<".", "s", "y", "n", "c", "_", "s", "t", "a", "t", "e">>

\* str.startswith
StartsWith(s, pre) == Len(pre) <= Len(s) /\ SubSeq(s, 1, Len(pre)) = pre

\* str.rfind, counting from 1; 0 when ch does not occur
RFind(s, ch) ==
  IF \E i \in 1..Len(s) : s[i] = ch
  THEN CHOOSE i \in 1..Len(s) :
         s[i] = ch /\ \A j \in (i + 1)..Len(s) : s[j] # ch
  ELSE 0

\* str.strip(ch)
RECURSIVE LStrip(_, _)
LStrip(s, ch) ==
  IF s # << >> /\ Head(s) = ch THEN LStrip(Tail(s), ch) ELSE s

RECURSIVE RStrip(_, _)
RStrip(s, ch) ==
  IF s # << >> /\ s[Len(s)] = ch
  THEN RStrip(SubSeq(s, 1, Len(s) - 1), ch)
  ELSE s

Strip(s, ch) == RStrip(LStrip(s, ch), ch)

\* os.path.basename
basename(rel_path) ==
  SubSeq(rel_path, RFind(rel_path, "/") + 1, Len(rel_path))

\* fnmatch.fnmatch for patterns made of characters, * and ?
RECURSIVE fnmatch(_, _)
fnmatch(name, pat) ==
  IF pat = << >> THEN name = << >>
  ELSE IF Head(pat) = "*"
       THEN \/ fnmatch(name, Tail(pat))
            \/ name # << >> /\ fnmatch(Tail(name), pat)
  ELSE /\ name # << >>
       /\ Head(pat) = "?" \/ Head(pat) = Head(name)
       /\ fnmatch(Tail(name), Tail(pat))

\* _should_ignore, sync_engine.py:107-116
should_ignore(rel_path) ==
  LET b == basename(rel_path)
  IN \/ b = STATE_FILE_NAME
     \/ StartsWith(b, STATE_FILE_PREFIX)
     \/ \E i \in 1..Len(IGNORE_PATTERNS) : fnmatch(b, IGNORE_PATTERNS[i])

\* _is_in_sync_scope, sync_engine.py:119-137
is_in_sync_scope(rel_path) ==
  LET folder(f) == Strip(Strip(f, " "), "/")
      within(f) ==
        /\ folder(f) # << >>
        /\ \/ rel_path = folder(f)
           \/ StartsWith(rel_path, folder(f) \o <<"/">>)
  IN IF \E i \in 1..Len(EXCLUDE_FOLDERS) : within(EXCLUDE_FOLDERS[i])
     THEN FALSE
     ELSE IF SYNC_FOLDERS = << >> THEN TRUE
     ELSE \E i \in 1..Len(SYNC_FOLDERS) : within(SYNC_FOLDERS[i])

\* os.path.splitext: <<root, ext>>; the extension starts at the last dot
\* of the last component, unless only dots precede it there
splitext(rel_path) ==
  LET sep == RFind(rel_path, "/")
      dot == RFind(rel_path, ".")
  IN IF dot > sep /\ \E k \in (sep + 1)..(dot - 1) : rel_path[k] # "."
     THEN <<SubSeq(rel_path, 1, dot - 1), SubSeq(rel_path, dot, Len(rel_path))>>
     ELSE <<rel_path, << >> >>

\* _handle_conflict, sync_engine.py:499-501: the name of the conflict copy
conflict_rel(rel_path, t) ==
  splitext(rel_path)[1] \o CONFLICT_SUFFIX \o <<"_", ToString(t)>>
    \o splitext(rel_path)[2]

\* the rel_path of a path
RECURSIVE RelPath(_)
RelPath(p) ==
  IF Len(p) = 1 THEN BaseName[p[1]]
  ELSE conflict_rel(RelPath(SubSeq(p, 1, Len(p) - 1)), p[Len(p)])

ConflictPath(p, t) == p \o <<t>>

(***************************************************************************)
(* Files, state entries and the retry queue                                *)
(***************************************************************************)
Contents == 1..NContents
\* what a download that breaks off leaves in the local file
Truncated == 0
\* hashlib.sha256 / the hash the server reports; NoHash: "" or None
NoHash == 0
Hash(c) == c + 1
\* st_size / the size the server reports
Size(c) == c
\* state["delta_link"] is None
NoLink == 0

Empty == [x \in {} |-> 0]
Put(f, k, v) == [x \in DOMAIN f \cup {k} |-> IF x = k THEN v ELSE f[x]]
Del(f, k) == [x \in DOMAIN f \ {k} |-> f[x]]

\* the lowest number >= 1 that is not in S
MinFree(S) ==
  CHOOSE n \in 1..(Cardinality(S) + 1) :
    n \notin S /\ \A k \in 1..(n - 1) : k \in S

\* _empty_state, state_db.py:112-113
EmptyState == [files |-> Empty, retry_queue |-> << >>, delta_link |-> NoLink]

\* set_file_entry, state_db.py:57-70
set_file_entry(st, rel_path, size, local_mtime, remote_mtime, local_hash, remote_hash) ==
  [st EXCEPT !.files =
     Put(@, rel_path,
         [size |-> size, local_mtime |-> local_mtime,
          remote_mtime |-> remote_mtime, synced_at |-> now,
          local_hash |-> local_hash, remote_hash |-> remote_hash])]

\* remove_file_entry, state_db.py:73-75
remove_file_entry(st, rel_path) == [st EXCEPT !.files = Del(@, rel_path)]

\* 2 ** attempts
RECURSIVE Pow2(_)
Pow2(n) == IF n = 0 THEN 1 ELSE 2 * Pow2(n - 1)

Min(a, b) == IF a <= b THEN a ELSE b

\* _next_retry_time with the delay of the attempt before: 15 s, 30 s, 60 s...
NextRetryOneShort(attempts) == now + Min(Pow2(attempts - 1) * 30, 1800)

\* _next_retry_time, state_db.py:106-109
next_retry_time(attempts) == now + Min(Pow2(attempts) * 30, 1800)

\* add_retry without the loop of state_db.py:81-86: the item is always
\* appended
AddRetryAppend(st, path, action) ==
  [st EXCEPT !.retry_queue =
     Append(@, [path |-> path, action |-> action, attempts |-> 1,
                next_retry |-> next_retry_time(1)])]

\* add_retry, state_db.py:78-94: the first item of the same path and action
\* is updated, else a new item is appended
add_retry(st, path, action) ==
  LET q == st.retry_queue
      hit == {i \in 1..Len(q) : q[i].path = path /\ q[i].action = action}
      first == CHOOSE i \in hit : \A j \in hit : i <= j
  IN IF hit # {}
     THEN [st EXCEPT !.retry_queue[first] =
             [@ EXCEPT !.attempts = @ + 1,
                       !.next_retry = next_retry_time(q[first].attempts + 1)]]
     ELSE [st EXCEPT !.retry_queue =
             Append(@, [path |-> path, action |-> action, attempts |-> 1,
                        next_retry |-> next_retry_time(1)])]

(***************************************************************************)
(* mtimes.  Only equality of mtimes is ever tested, so a write takes the   *)
(* lowest mtime that no file, entry or snapshot of its side holds.         *)
(***************************************************************************)
LocalMtimes ==
  {local[q].m : q \in DOMAIN local}
    \cup {db.files[q].local_mtime : q \in DOMAIN db.files}
    \cup {state.files[q].local_mtime : q \in DOMAIN state.files}
    \cup {local_files[q].mtime : q \in DOMAIN local_files}

RemoteMtimes ==
  {remote[q].m : q \in DOMAIN remote}
    \cup {db.files[q].remote_mtime : q \in DOMAIN db.files}
    \cup {state.files[q].remote_mtime : q \in DOMAIN state.files}
    \cup {remote_files[q].lastModifiedDateTime : q \in DOMAIN remote_files}
    \cup {ch.lastModifiedDateTime : ch \in changes}

FreshLocal == MinFree(LocalMtimes)
FreshRemote == MinFree(RemoteMtimes)

\* what a listing or a delta item says about a remote file
RemoteInfo(p) ==
  [size |-> Size(remote[p].c), lastModifiedDateTime |-> remote[p].m,
   remote_hash |-> Hash(remote[p].c)]

\* os.stat of a local file
LocalInfo(p) == [size |-> Size(local[p].c), mtime |-> local[p].m]

\* _compute_local_hash, sync_engine.py:95-104
compute_local_hash(tree, p) ==
  IF p \in DOMAIN tree THEN Hash(tree[p].c) ELSE NoHash

\* every cursor of the server sees a change of path p
Touch(p) == [k \in DOMAIN since |-> since[k] \cup {p}]

(***************************************************************************)
(* The outcomes of the requests and file operations (onedrive_api.py).     *)
(* "gone" and "missing" are the failures the trees force; the others are   *)
(* faults of the network, the server or the file system.                   *)
(***************************************************************************)
\* the step of the clock: the first backoff of the retry queue
TickLen == Min(Pow2(1) * 30, 1800)

\* one more event may happen outside the program
Budget == nenv + nfault + (now \div TickLen) < MaxEvents

Faults(S) == IF nfault < MaxFaults /\ Budget THEN S ELSE {}
IsFault(out) ==
  out \in {"http_error", "raise", "partial", "oserror", "no_cursor"}

\* download_file, onedrive_api.py:195-215
DownOutcomes(p) ==
  IF p \in DOMAIN remote
  THEN {"ok"} \cup Faults({"http_error", "raise", "partial"})
  ELSE {"gone"}

\* the local tree after download_file; a stream that breaks leaves the part
\* that was written
download_file(tree, p, out) ==
  CASE out = "ok" -> Put(tree, p, [c |-> remote[p].c, m |-> FreshLocal])
    [] out = "partial" -> Put(tree, p, [c |-> Truncated, m |-> FreshLocal])
    [] OTHER -> tree

\* upload_file, onedrive_api.py:218-250: os.path.getsize raises when the
\* local file is missing
UpOutcomes(p) ==
  IF p \in DOMAIN local
  THEN {"ok"} \cup Faults({"http_error", "raise"})
  ELSE {"missing"}

\* the remote tree after upload_file
upload_file(p, out) ==
  IF out = "ok"
  THEN Put(remote, p, [c |-> local[p].c, m |-> FreshRemote])
  ELSE remote

\* delete_remote, onedrive_api.py:301-314; a 404 counts as deleted
DelOutcomes(p) == {"ok"} \cup Faults({"http_error", "raise"})

delete_remote(p, out) == IF out = "ok" THEN Del(remote, p) ELSE remote

\* os.remove
RemoveOutcomes(p) ==
  IF p \in DOMAIN local THEN {"ok"} \cup Faults({"oserror"}) ELSE {"missing"}

\* the request raised (requests.RequestException, OSError)
Raised(out) == out \in {"raise", "partial", "missing", "oserror"}

(***************************************************************************)
(* The history of the passes                                               *)
(***************************************************************************)
\* something happens outside the program
Disturbed == IF epc = "idle" THEN "no" ELSE "dirty"

\* a request or file operation ends
AfterOutcome(out) ==
  IF IsFault(out) /\ back_to_back = "yes" THEN Disturbed ELSE back_to_back

(***************************************************************************)
(* The state before anything is synced                                     *)
(***************************************************************************)
PassIdle ==
  /\ epc' = "idle"
  /\ mode' = None
  /\ state' = EmptyState
  /\ queue' = << >>
  /\ remaining' = << >>
  /\ remote_files' = Empty
  /\ local_files' = Empty
  /\ actions' = {}
  /\ done' = {}
  /\ changes' = {}
  /\ new_delta_link' = NoLink
  /\ error_count' = 0

\* the folder, the share and the state file when the program starts: nothing
\* yet, or the first file in sync on both sides after an earlier run, or the
\* first file waiting in the retry queue
Synced(p, c) ==
  [spent |-> 0,
   local |-> Put(Empty, p, [c |-> c, m |-> 1]),
   remote |-> Put(Empty, p, [c |-> c, m |-> 1]),
   db |-> [EmptyState EXCEPT !.files =
             Put(Empty, p,
                 [size |-> Size(c), local_mtime |-> 1, remote_mtime |-> 1,
                  synced_at |-> 0, local_hash |-> Hash(c),
                  remote_hash |-> Hash(c)])]]

\* an earlier run failed four times to upload the first file, and the retry
\* is due; the failures count as one of the events of the run
Queued(p, c) ==
  [spent |-> 1,
   local |-> Put(Empty, p, [c |-> c, m |-> 1]),
   remote |-> Empty,
   db |-> [EmptyState EXCEPT !.retry_queue =
             << [path |-> p, action |-> "upload_new", attempts |-> 4,
                 next_retry |-> 0] >>]]

Situations ==
  {[spent |-> 0, local |-> Empty, remote |-> Empty, db |-> EmptyState],
   Synced(<<1>>, 1),
   Queued(<<1>>, 1)}

EngStart(S, cursors) ==
  /\ \E s \in S :
       /\ local = s.local
       /\ remote = s.remote
       /\ db = s.db
       /\ nenv = s.spent
  /\ since = cursors
  /\ now = 0
  /\ user_removed = {}
  /\ recently_synced = Empty
  /\ epc = "idle"
  /\ mode = None
  /\ state = EmptyState
  /\ queue = << >>
  /\ remaining = << >>
  /\ remote_files = Empty
  /\ local_files = Empty
  /\ actions = {}
  /\ done = {}
  /\ changes = {}
  /\ new_delta_link = NoLink
  /\ error_count = 0
  /\ nfault = 0
  /\ back_to_back = "no"

\* before start(): no cursor has been asked for
EngInit == EngStart(Situations, Empty)

\* no event is waiting and the observer thread is in no handler
WatchIdle ==
  /\ fsevents = {}
  /\ wpc = "idle"
  /\ wpath = << >>
  /\ wstate = EmptyState

(***************************************************************************)
(* The user and the clock                                                  *)
(***************************************************************************)
\* the paths the user edits and deletes at will; the others are only created
Editable == {<<1>>}

\* the contents the user writes to a path
EnvContents(p) ==
  IF p \in Editable THEN Contents
  ELSE IF p \in DOMAIN local \cup DOMAIN remote THEN {} ELSE {1}

\* a file is created or modified in cfg.LOCAL_FOLDER
EnvLocalWrite(p, c) ==
  /\ UNCHANGED <<notUser, watchVars>>
  /\ user_removed' = user_removed \ {p}
  /\ back_to_back' = Disturbed
  /\ nenv < MaxEnv
  /\ Budget
  /\ nenv' = nenv + 1
  /\ local' = Put(local, p, [c |-> c, m |-> FreshLocal])
  /\ UNCHANGED <<remote, since, now, db, recently_synced, passVars, nfault>>

\* a file is deleted in cfg.LOCAL_FOLDER
EnvLocalDelete(p) ==
  /\ UNCHANGED <<notUser, watchVars>>
  /\ user_removed' = user_removed \cup {p}
  /\ back_to_back' = Disturbed
  /\ nenv < MaxEnv
  /\ Budget
  /\ p \in DOMAIN local
  /\ nenv' = nenv + 1
  /\ local' = Del(local, p)
  /\ UNCHANGED <<remote, since, now, db, recently_synced, passVars, nfault>>

\* a file is created or modified in the shared folder by someone else
EnvRemoteWrite(p, c) ==
  /\ UNCHANGED notEng
  /\ back_to_back' = Disturbed
  /\ nenv < MaxEnv
  /\ Budget
  /\ nenv' = nenv + 1
  /\ remote' = Put(remote, p, [c |-> c, m |-> FreshRemote])
  /\ since' = Touch(p)
  /\ UNCHANGED <<local, now, db, recently_synced, passVars, nfault>>

\* a file is deleted in the shared folder by someone else
EnvRemoteDelete(p) ==
  /\ UNCHANGED notEng
  /\ back_to_back' = Disturbed
  /\ nenv < MaxEnv
  /\ Budget
  /\ p \in DOMAIN remote
  /\ nenv' = nenv + 1
  /\ remote' = Del(remote, p)
  /\ since' = Touch(p)
  /\ UNCHANGED <<local, now, db, recently_synced, passVars, nfault>>

\* a minute passes
Tick ==
  /\ UNCHANGED notEng
  /\ back_to_back' = Disturbed
  /\ now < MaxTicks * TickLen
  /\ Budget
  /\ now' = now + TickLen
  /\ UNCHANGED <<local, remote, since, db, recently_synced, passVars, nenv,
                 nfault>>

(***************************************************************************)
(* full_sync, sync_engine.py:149-268                                       *)
(***************************************************************************)
\* cleanup_recently_synced, sync_engine.py:86-92
cleanup_recently_synced ==
  [p \in {q \in DOMAIN recently_synced : ~(now - recently_synced[q] > 5)}
     |-> recently_synced[p]]

\* mark_recently_synced, sync_engine.py:69-72
mark_recently_synced(p) == Put(recently_synced, p, now)

\* lines 154-160: the pass loads the state and turns to the retry queue
FullBegin ==
  /\ UNCHANGED notEng
  /\ UNCHANGED back_to_back
  /\ epc = "idle"
  /\ recently_synced' = cleanup_recently_synced
  /\ mode' = "full"
  /\ state' = db
  /\ queue' = db.retry_queue
  /\ epc' = IF db.retry_queue = << >> THEN "list" ELSE "retry"
  /\ UNCHANGED <<local, remote, since, now, db, remaining, remote_files,
                 local_files, actions, done, changes, new_delta_link,
                 error_count, nenv, nfault>>

\* _process_retry_queue, sync_engine.py:375-430: what the retry of an item
\* does.  "skip": the item is not tried
RetryOutcomes(item) ==
  IF item.attempts >= 5 \/ item.next_retry > now THEN {"skip"}
  ELSE CASE item.action \in {"upload_new", "upload"} ->
              IF item.path \in DOMAIN local THEN UpOutcomes(item.path)
              ELSE {"not_a_file"}
         [] item.action \in {"download_new", "download"} ->
              DownOutcomes(item.path)
         [] item.action \in {"local_deleted", "delete"} ->
              DelOutcomes(item.path)
         [] OTHER -> {"untried"}

\* lines 384-428 for one item of the queue; queue is what is left of the
\* loop, and line 430 follows the last item
RetryItem(out) ==
  /\ UNCHANGED notEng
  /\ back_to_back' = AfterOutcome(out)
  /\ epc = "retry"
  /\ out \in RetryOutcomes(Head(queue))
  /\ LET item == Head(queue)
         p == item.path
         failed == [item EXCEPT !.attempts = @ + 1,
                                !.next_retry = next_retry_time(item.attempts + 1)]
         up == item.action \in {"upload_new", "upload"}
         down == item.action \in {"download_new", "download"}
         del == item.action \in {"local_deleted", "delete"}
         rem == IF out = "skip"
                THEN IF item.attempts >= 5 THEN remaining
                     ELSE Append(remaining, item)
                ELSE IF out = "ok" THEN remaining
                ELSE Append(remaining, failed)
         st == IF out = "ok" /\ up
               THEN set_file_entry(state, p, Size(local[p].c), local[p].m,
                                   FreshRemote, NoHash, NoHash)
               ELSE IF out = "ok" /\ del THEN remove_file_entry(state, p)
               ELSE state
         last == Tail(queue) = << >>
     IN /\ local' = IF down THEN download_file(local, p, out) ELSE local
        /\ remote' = IF up THEN upload_file(p, out)
                     ELSE IF del THEN delete_remote(p, out)
                     ELSE remote
        /\ since' = IF out = "ok" /\ (up \/ del) THEN Touch(p) ELSE since
        /\ nfault' = IF IsFault(out) THEN nfault + 1 ELSE nfault
        /\ queue' = Tail(queue)
        /\ remaining' = IF last THEN << >> ELSE rem
        /\ state' = IF last THEN [st EXCEPT !.retry_queue = rem] ELSE st
        /\ epc' = IF last THEN "list" ELSE "retry"
  /\ UNCHANGED <<now, db, recently_synced, mode, remote_files, local_files,
                 actions, done, changes, new_delta_link, error_count, nenv>>

\* the folders of the remote tree; << >> is the shared folder itself
FoldersOf(rel_path) ==
  {SubSeq(rel_path, 1, i - 1) :
     i \in {k \in 1..Len(rel_path) : rel_path[k] = "/"}}

Folders == {<< >>} \cup UNION {FoldersOf(RelPath(p)) : p \in DOMAIN remote}

Under(rel_path, folder) ==
  folder = << >> \/ StartsWith(rel_path, folder \o <<"/">>)

\* list_remote_files, onedrive_api.py:76-125, when the request for one
\* folder is answered with an error: the files under it are left out
ListedFiles(out, folder) ==
  IF out = "ok" THEN DOMAIN remote
  ELSE {p \in DOMAIN remote : ~Under(RelPath(p), folder)}

\* lines 171-188: os.walk, with the ignored and out-of-scope files left out
WalkedFiles ==
  {p \in DOMAIN local :
     ~should_ignore(RelPath(p)) /\ is_in_sync_scope(RelPath(p))}

\* lines 190-197
AllPaths(R, L, S) == {p \in R \cup L \cup S : is_in_sync_scope(RelPath(p))}

\* lines 206-215 with every `elif` read as `if`
ActionsNoElif(R, L, S) ==
  LET A == AllPaths(R, L, S)
  IN {<<"sync_existing", p>> : p \in A \cap ((R \cap L) \cap S)}
       \cup {<<"local_deleted", p>> : p \in A \cap ((R \cap S) \ L)}
       \cup {<<"remote_deleted", p>> : p \in A \cap ((L \cap S) \ R)}
       \cup {<<"download_new", p>> : p \in A \cap (R \ S)}
       \cup {<<"upload_new", p>> : p \in A \cap (L \ S)}

\* lines 206-215: the action of a path found in R (remote listing), L (local
\* walk), S (state), or None
ActionOf(p, R, L, S) ==
  IF p \in R /\ p \in L /\ p \in S THEN "sync_existing"
  ELSE IF p \in R /\ p \in S /\ p \notin L THEN "local_deleted"
  ELSE IF p \in L /\ p \in S /\ p \notin R THEN "remote_deleted"
  ELSE IF p \in R /\ p \notin S THEN "download_new"
  ELSE IF p \in L /\ p \notin S THEN "upload_new"
  ELSE None

\* lines 199-215
BuildActions(R, L, S) ==
  {<<ActionOf(p, R, L, S), p>> :
     p \in {q \in AllPaths(R, L, S) : ActionOf(q, R, L, S) # None}}

\* lines 162-215: the listing, the walk and the actions; when the listing
\* raises the pass returns (0, 1) and nothing is saved
FullList(out, folder) ==
  /\ UNCHANGED notEng
  /\ back_to_back' = IF out = "raise" THEN "no" ELSE AfterOutcome(out)
  /\ epc = "list"
  /\ out \in {"ok"} \cup Faults({"raise", "partial"})
  /\ folder \in Folders
  /\ out # "partial" => folder = << >>
  /\ nfault' = IF IsFault(out) THEN nfault + 1 ELSE nfault
  /\ IF out = "raise"
     THEN PassIdle
     ELSE LET R == ListedFiles(out, folder)
              L == WalkedFiles
          IN /\ remote_files' = [p \in R |-> RemoteInfo(p)]
             /\ local_files' = [p \in L |-> LocalInfo(p)]
             /\ actions' = BuildActions(R, L, DOMAIN state.files)
             /\ epc' = "acting"
             /\ UNCHANGED <<mode, state, queue, remaining, done, changes,
                            new_delta_link, error_count>>
  /\ UNCHANGED <<local, remote, since, now, db, recently_synced, nenv>>

(***************************************************************************)
(* The handlers of the actions.  A handler leaves the two trees and the    *)
(* state dict, and it may have marked the path as recently synced and may  *)
(* have raised.                                                            *)
(***************************************************************************)
Result(l, r, st, mk, ex) ==
  [local |-> l, remote |-> r, state |-> st, marked |-> mk, raised |-> ex]

\* _sync_existing, sync_engine.py:443-444
RemoteChanged(p) ==
  remote_files[p].lastModifiedDateTime # state.files[p].remote_mtime

LocalChanged(p) == local_files[p].mtime # state.files[p].local_mtime

\* _sync_existing, sync_engine.py:447-459: one side changed its mtime and
\* both hashes are the recorded ones
HashSkip(p) ==
  /\ RemoteChanged(p) # LocalChanged(p)
  /\ remote_files[p].remote_hash # NoHash
  /\ remote_files[p].remote_hash = state.files[p].remote_hash
  /\ compute_local_hash(local, p) # NoHash
  /\ compute_local_hash(local, p) = state.files[p].local_hash

\* _sync_existing without the hash test of lines 447-459
BranchNoHashSkip(p) ==
  IF RemoteChanged(p) /\ LocalChanged(p) THEN "conflict"
  ELSE IF RemoteChanged(p) THEN "download"
  ELSE IF LocalChanged(p) THEN "upload"
  ELSE "none"

\* the branch _sync_existing takes
Branch(p) ==
  IF HashSkip(p) THEN "skip"
  ELSE IF RemoteChanged(p) /\ LocalChanged(p) THEN "conflict"
  ELSE IF RemoteChanged(p) THEN "download"
  ELSE IF LocalChanged(p) THEN "upload"
  ELSE "none"

\* a download that writes over the local file, without the rename of
\* sync_engine.py:505
OverwriteLocal(p, info, out, hashed) ==
  LET tree == download_file(local, p, out)
  IN Result(tree, remote,
            IF out = "ok"
            THEN set_file_entry(state, p, info.size, FreshLocal,
                                info.lastModifiedDateTime,
                                IF hashed THEN compute_local_hash(tree, p)
                                          ELSE NoHash,
                                info.remote_hash)
            ELSE state,
            TRUE, Raised(out))

\* _handle_conflict, sync_engine.py:496-524, and _handle_conflict_delta,
\* 527-552 (which records no local hash): the local file is renamed to the
\* conflict name and the remote version is downloaded
handle_conflict(p, info, out, hashed) ==
  LET renamed == Put(Del(local, p), ConflictPath(p, now), local[p])
      tree == download_file(renamed, p, out)
  IN IF p \notin DOMAIN local
     THEN Result(local, remote, state, FALSE, TRUE)
     ELSE Result(tree, remote,
                 IF out = "ok"
                 THEN set_file_entry(state, p, info.size, FreshLocal,
                                     info.lastModifiedDateTime,
                                     IF hashed THEN compute_local_hash(tree, p)
                                               ELSE NoHash,
                                     info.remote_hash)
                 ELSE state,
                 TRUE, Raised(out))

\* the download of _sync_existing (463-476), _download_new (582-597) and
\* delta_sync (342-358, which records no local hash)
pull(p, info, out, hashed) ==
  LET tree == download_file(local, p, out)
  IN Result(tree, remote,
            IF out = "ok"
            THEN set_file_entry(state, p, info.size, FreshLocal,
                                info.lastModifiedDateTime,
                                IF hashed THEN compute_local_hash(tree, p)
                                          ELSE NoHash,
                                info.remote_hash)
            ELSE state,
            TRUE, Raised(out))

\* the upload of _sync_existing (477-493) and _upload_new (600-617)
push(p, info, out) ==
  Result(local, upload_file(p, out),
         IF out = "ok"
         THEN set_file_entry(state, p, info.size, info.mtime, FreshRemote,
                             compute_local_hash(local, p), Hash(local[p].c))
         ELSE state,
         FALSE, Raised(out))

\* _sync_existing, sync_engine.py:433-493
sync_existing(p, out) ==
  CASE Branch(p) = "skip" ->
         Result(local, remote,
                set_file_entry(state, p, remote_files[p].size,
                               local_files[p].mtime,
                               remote_files[p].lastModifiedDateTime,
                               compute_local_hash(local, p),
                               remote_files[p].remote_hash),
                FALSE, FALSE)
    [] Branch(p) = "conflict" -> handle_conflict(p, remote_files[p], out, TRUE)
    [] Branch(p) = "download" -> pull(p, remote_files[p], out, TRUE)
    [] Branch(p) = "upload" -> push(p, local_files[p], out)
    [] OTHER -> Result(local, remote, state, FALSE, FALSE)

\* _handle_local_deleted_during_poll, sync_engine.py:555-560: what
\* delete_remote returns is not looked at
local_deleted(p, out) ==
  Result(local, delete_remote(p, out),
         IF Raised(out) THEN state ELSE remove_file_entry(state, p),
         FALSE, Raised(out))

\* _handle_remote_deleted_during_poll, sync_engine.py:563-579: an OSError
\* of os.remove is logged
remote_deleted(p, out) ==
  Result(IF out = "ok" THEN Del(local, p) ELSE local, remote,
         remove_file_entry(state, p), FALSE, FALSE)

\* _exec_action, sync_engine.py:224-233
Handle(a, out) ==
  CASE a[1] = "sync_existing" -> sync_existing(a[2], out)
    [] a[1] = "local_deleted" -> local_deleted(a[2], out)
    [] a[1] = "remote_deleted" -> remote_deleted(a[2], out)
    [] a[1] = "download_new" -> pull(a[2], remote_files[a[2]], out, TRUE)
    [] a[1] = "upload_new" -> push(a[2], local_files[a[2]], out)

\* how the one request or file operation of an action can end
ActionOutcomes(a) ==
  CASE a[1] = "sync_existing" ->
         ( CASE Branch(a[2]) = "conflict" ->
                  IF a[2] \in DOMAIN local THEN DownOutcomes(a[2])
                  ELSE {"missing"}
             [] Branch(a[2]) = "download" -> DownOutcomes(a[2])
             [] Branch(a[2]) = "upload" -> UpOutcomes(a[2])
             [] OTHER -> {"ok"} )
    [] a[1] = "local_deleted" -> DelOutcomes(a[2])
    [] a[1] = "remote_deleted" -> RemoveOutcomes(a[2])
    [] a[1] = "download_new" -> DownOutcomes(a[2])
    [] a[1] = "upload_new" -> UpOutcomes(a[2])

\* _exec_action, sync_engine.py:220-244, run by the loop or by a worker of
\* the pool (246-262): an action that raises goes to the retry queue
ExecAction(a, out) ==
  /\ UNCHANGED notEng
  /\ back_to_back' = AfterOutcome(out)
  /\ epc = "acting"
  /\ a \in actions \ done
  /\ out \in ActionOutcomes(a)
  /\ LET res == Handle(a, out)
     IN /\ local' = res.local
        /\ remote' = res.remote
        /\ since' = IF res.remote # remote THEN Touch(a[2]) ELSE since
        /\ recently_synced' =
             IF res.marked THEN mark_recently_synced(a[2])
             ELSE recently_synced
        /\ state' = IF res.raised THEN add_retry(res.state, a[2], a[1])
                    ELSE res.state
        /\ error_count' = IF res.raised THEN error_count + 1 ELSE error_count
  /\ nfault' = IF IsFault(out) THEN nfault + 1 ELSE nfault
  /\ done' = done \cup {a}
  /\ UNCHANGED <<now, db, epc, mode, queue, remaining, remote_files,
                 local_files, actions, changes, new_delta_link, nenv>>

\* a full_sync that returns after the first action that failed
FullCommitOnError ==
  /\ UNCHANGED notEng
  /\ back_to_back' = "no"
  /\ epc = "acting"
  /\ done = actions \/ error_count > 0
  /\ db' = state
  /\ PassIdle
  /\ UNCHANGED <<local, remote, since, now, recently_synced, nenv, nfault>>

\* lines 264-268: save_state
FullCommit ==
  /\ UNCHANGED notEng
  /\ back_to_back' = IF back_to_back = "dirty" THEN "no" ELSE "yes"
  /\ epc = "acting"
  /\ done = actions
  /\ db' = state
  /\ PassIdle
  /\ UNCHANGED <<local, remote, since, now, recently_synced, nenv, nfault>>

(***************************************************************************)
(* delta_sync, sync_engine.py:271-372                                      *)
(***************************************************************************)
\* list_remote_changes, onedrive_api.py:128-192: the items changed since
\* the cursor
DeltaItem(p) ==
  IF p \in DOMAIN remote
  THEN [path |-> p, deleted |-> FALSE, size |-> Size(remote[p].c),
        lastModifiedDateTime |-> remote[p].m,
        remote_hash |-> Hash(remote[p].c)]
  ELSE [path |-> p, deleted |-> TRUE, size |-> 0,
        lastModifiedDateTime |-> 0, remote_hash |-> NoHash]

DeltaItems(link) == {DeltaItem(p) : p \in since[link]}

\* a delta_sync that applies the changes of an answer without a new cursor
DeltaBeginAppliesPartial(out) ==
  /\ UNCHANGED notEng
  /\ back_to_back' = IF out = "ok" THEN "dirty" ELSE AfterOutcome(out)
  /\ epc = "idle"
  /\ out \in IF db.delta_link = NoLink THEN {"no_link"}
             ELSE IF db.delta_link \notin DOMAIN since THEN {"expired"}
             ELSE {"ok"} \cup Faults({"raise", "http_error", "no_cursor"})
  /\ nfault' = IF IsFault(out) THEN nfault + 1 ELSE nfault
  /\ recently_synced' = cleanup_recently_synced
  /\ state' = db
  /\ IF out \in {"ok", "no_cursor"}
     THEN /\ mode' = "delta"
          /\ epc' = "delta"
          /\ changes' =
               {ch \in DeltaItems(db.delta_link) :
                  /\ ~should_ignore(RelPath(ch.path))
                  /\ is_in_sync_scope(RelPath(ch.path))}
          /\ new_delta_link' = MinFree(DOMAIN since)
          /\ since' = Put(since, MinFree(DOMAIN since), {})
          /\ UNCHANGED queue
     ELSE /\ mode' = "full"
          /\ epc' = IF db.retry_queue = << >> THEN "list" ELSE "retry"
          /\ queue' = db.retry_queue
          /\ UNCHANGED <<changes, new_delta_link, since>>
  /\ UNCHANGED <<local, remote, now, db, remaining, remote_files, local_files,
                 actions, done, error_count, nenv>>

\* lines 277-307: without a cursor, when the query fails (the server knows
\* the cursors of since only) or when the last page of the answer carries no
\* @odata.deltaLink (onedrive_api.py:188-192), the pass is a full_sync; else
\* the changes of ignored and out-of-scope paths are skipped
DeltaBegin(out) ==
  /\ UNCHANGED notEng
  /\ back_to_back' = IF out = "ok" THEN "dirty" ELSE AfterOutcome(out)
  /\ epc = "idle"
  /\ out \in IF db.delta_link = NoLink THEN {"no_link"}
             ELSE IF db.delta_link \notin DOMAIN since THEN {"expired"}
             ELSE {"ok"} \cup Faults({"raise", "http_error", "no_cursor"})
  /\ nfault' = IF IsFault(out) THEN nfault + 1 ELSE nfault
  /\ recently_synced' = cleanup_recently_synced
  /\ state' = db
  /\ IF out = "ok"
     THEN /\ mode' = "delta"
          /\ epc' = "delta"
          /\ changes' =
               {ch \in DeltaItems(db.delta_link) :
                  /\ ~should_ignore(RelPath(ch.path))
                  /\ is_in_sync_scope(RelPath(ch.path))}
          /\ new_delta_link' = MinFree(DOMAIN since)
          /\ since' = Put(since, MinFree(DOMAIN since), {})
          /\ UNCHANGED queue
     ELSE /\ mode' = "full"
          /\ epc' = IF db.retry_queue = << >> THEN "list" ELSE "retry"
          /\ queue' = db.retry_queue
          /\ UNCHANGED <<changes, new_delta_link, since>>
  /\ UNCHANGED <<local, remote, now, db, remaining, remote_files, local_files,
                 actions, done, error_count, nenv>>

\* what ends the handling of one change
ChangeOutcomes(ch) ==
  IF ch.deleted
  THEN IF ch.path \in DOMAIN local THEN {"ok"} \cup Faults({"oserror"})
       ELSE {"ok"}
  ELSE DownOutcomes(ch.path)

\* lines 324-334: the changed path is tracked and the local file is not the
\* one recorded
DeltaConflict(p) ==
  /\ p \in DOMAIN state.files
  /\ p \in DOMAIN local
  /\ local[p].m # state.files[p].local_mtime

\* a change loop that downloads over the local file without the test of
\* lines 328-340
HandleChangeNoConflict(ch, out) ==
  IF ch.deleted
  THEN IF Raised(out) THEN Result(local, remote, state, FALSE, TRUE)
       ELSE Result(Del(local, ch.path), remote,
                   remove_file_entry(state, ch.path), FALSE, FALSE)
  ELSE pull(ch.path, ch, out, FALSE)

\* lines 309-365 for one change
HandleChange(ch, out) ==
  IF ch.deleted
  THEN IF Raised(out) THEN Result(local, remote, state, FALSE, TRUE)
       ELSE Result(Del(local, ch.path), remote,
                   remove_file_entry(state, ch.path), FALSE, FALSE)
  ELSE IF DeltaConflict(ch.path)
       THEN handle_conflict(ch.path, ch, out, FALSE)
       ELSE pull(ch.path, ch, out, FALSE)

ExecChange(ch, out) ==
  /\ UNCHANGED notEng
  /\ back_to_back' = AfterOutcome(out)
  /\ epc = "delta"
  /\ ch \in changes
  /\ out \in ChangeOutcomes(ch)
  /\ LET res == HandleChange(ch, out)
     IN /\ local' = res.local
        /\ state' = res.state
        /\ recently_synced' =
             IF res.marked THEN mark_recently_synced(ch.path)
             ELSE recently_synced
        /\ error_count' = IF res.raised THEN error_count + 1 ELSE error_count
  /\ nfault' = IF IsFault(out) THEN nfault + 1 ELSE nfault
  /\ changes' = changes \ {ch}
  /\ UNCHANGED <<remote, since, now, db, epc, mode, queue, remaining,
                 remote_files, local_files, actions, done, new_delta_link,
                 nenv>>

\* lines 367-372: the new cursor is saved with the state
DeltaCommit ==
  /\ UNCHANGED notEng
  /\ back_to_back' = "no"
  /\ epc = "delta"
  /\ changes = {}
  /\ db' = [state EXCEPT !.delta_link = new_delta_link]
  /\ since' = [k \in {new_delta_link} |-> since[new_delta_link]]
  /\ PassIdle
  /\ UNCHANGED <<local, remote, now, recently_synced, nenv, nfault>>

\* SyncManager._init_delta_link, sync_manager.py:157-169
InitDeltaLink(out) ==
  /\ UNCHANGED notEng
  /\ back_to_back' = AfterOutcome(out)
  /\ epc = "idle"
  /\ db.delta_link = NoLink
  /\ out \in {"ok"} \cup Faults({"raise", "http_error"})
  /\ nfault' = IF IsFault(out) THEN nfault + 1 ELSE nfault
  /\ IF out = "ok"
     THEN /\ db' = [db EXCEPT !.delta_link = MinFree(DOMAIN since)]
          /\ since' = Put(since, MinFree(DOMAIN since), {})
     ELSE UNCHANGED <<db, since>>
  /\ UNCHANGED <<local, remote, now, recently_synced, passVars, nenv>>

Outcomes ==
  {"ok", "gone", "missing", "http_error", "raise", "partial", "oserror",
   "skip", "not_a_file", "untried", "no_link", "expired", "no_cursor"}

EngNext ==
  \/ \E p \in BasePaths : \E c \in EnvContents(p) : EnvLocalWrite(p, c)
  \/ \E p \in Editable : EnvLocalDelete(p)
  \/ \E p \in BasePaths : \E c \in EnvContents(p) : EnvRemoteWrite(p, c)
  \/ \E p \in Editable : EnvRemoteDelete(p)
  \/ Tick
  \/ FullBegin
  \/ \E out \in Outcomes : RetryItem(out)
  \/ \E out \in Outcomes : \E folder \in Folders : FullList(out, folder)
  \/ \E a \in actions : \E out \in Outcomes : ExecAction(a, out)
  \/ FullCommit
  \/ \E out \in Outcomes : DeltaBegin(out)
  \/ \E ch \in changes : \E out \in Outcomes : ExecChange(ch, out)
  \/ DeltaCommit
  \/ \E out \in Outcomes : InitDeltaLink(out)

(***************************************************************************)
(* The watcher: SyncEventHandler (file_watcher.py:13-50) calls             *)
(* handle_local_change and handle_local_delete (sync_engine.py:620-678) on *)
(* the observer thread, one event after the other, while passes run on     *)
(* the poll and trigger threads.  Neither handler takes a lock between its *)
(* load_state and its save_state.                                          *)
(***************************************************************************)
DEBOUNCE_SECONDS == 3

\* is_recently_synced with <= in line 81
RecentlySyncedInclusive(p) ==
  /\ p \in DOMAIN recently_synced
  /\ now - recently_synced[p] <= DEBOUNCE_SECONDS

\* is_recently_synced, sync_engine.py:75-83
is_recently_synced(p) ==
  /\ p \in DOMAIN recently_synced
  /\ now - recently_synced[p] < DEBOUNCE_SECONDS

\* a second passes between the arrival of an event and the moment the
\* observer thread takes it, while the mark of its path is inside the
\* debounce window: the one reading of the clock at this grain
\* (sync_engine.py:81)
Second ==
  /\ UNCHANGED <<notWatch, watchVars>>
  /\ back_to_back' = Disturbed
  /\ wpc = "idle"
  /\ \E ev \in fsevents :
       /\ ev[2] \in DOMAIN recently_synced
       /\ now - recently_synced[ev[2]] < DEBOUNCE_SECONDS
  /\ now' = now + 1
  /\ UNCHANGED <<local, remote, since, db, recently_synced, passVars, nenv,
                 nfault>>

\* the user writes a file of the watched folder: on_created / on_modified
UserWrite(p, c) ==
  /\ UNCHANGED notUser
  /\ user_removed' = user_removed \ {p}
  /\ back_to_back' = Disturbed
  /\ nenv < MaxEnv
  /\ Budget
  /\ nenv' = nenv + 1
  /\ local' = Put(local, p, [c |-> c, m |-> FreshLocal])
  /\ fsevents' = fsevents \cup {<<"change", p>>}
  /\ UNCHANGED <<remote, since, now, db, recently_synced, passVars, nfault,
                 wpc, wpath, wstate>>

\* the user deletes a file of the watched folder: on_deleted
UserDelete(p) ==
  /\ UNCHANGED notUser
  /\ user_removed' = user_removed \cup {p}
  /\ back_to_back' = Disturbed
  /\ nenv < MaxEnv
  /\ Budget
  /\ p \in DOMAIN local
  /\ nenv' = nenv + 1
  /\ local' = Del(local, p)
  /\ fsevents' = fsevents \cup {<<"delete", p>>}
  /\ UNCHANGED <<remote, since, now, db, recently_synced, passVars, nfault,
                 wpc, wpath, wstate>>

\* the checks that end a handler before it loads the state: lines 622-633
\* of handle_local_change, 658-665 of handle_local_delete
WatchSkips(kind, p) ==
  \/ is_recently_synced(p)
  \/ kind = "change" /\ p \notin DOMAIN local
  \/ should_ignore(RelPath(p))
  \/ ~is_in_sync_scope(RelPath(p))

\* the observer thread takes an event; the handler returns at once or goes
\* on to load_state (lines 636, 668)
WatchBegin(ev) ==
  /\ UNCHANGED notWatch
  /\ wpc = "idle"
  /\ ev \in fsevents
  /\ fsevents' = fsevents \ {ev}
  /\ IF WatchSkips(ev[1], ev[2])
     THEN UNCHANGED <<wpc, wpath, wstate>>
     ELSE /\ wpc' = ev[1]
          /\ wpath' = ev[2]
          /\ wstate' = db
  /\ UNCHANGED engVars

\* how the request of a handler can end
WatchOutcomes ==
  IF wpc = "change" THEN UpOutcomes(wpath) ELSE DelOutcomes(wpath)

\* the document a handler saves: lines 638-648 (nothing is saved when
\* upload_file returns None or raises) and 672-674 (the entry is removed
\* whatever delete_remote returns, unless it raises)
WatchSaves(out) ==
  IF wpc = "change"
  THEN IF out = "ok"
       THEN set_file_entry(wstate, wpath, Size(local[wpath].c),
                           local[wpath].m, FreshRemote,
                           compute_local_hash(local, wpath), NoHash)
       ELSE db
  ELSE IF Raised(out) THEN db ELSE remove_file_entry(wstate, wpath)

\* the rest of the handler: the request, then save_state
WatchEnd(out) ==
  /\ UNCHANGED notWatch
  /\ back_to_back' = Disturbed
  /\ wpc # "idle"
  /\ out \in WatchOutcomes
  /\ remote' = IF wpc = "change" THEN upload_file(wpath, out)
               ELSE delete_remote(wpath, out)
  /\ since' = IF out = "ok" THEN Touch(wpath) ELSE since
  /\ db' = WatchSaves(out)
  /\ nfault' = IF IsFault(out) THEN nfault + 1 ELSE nfault
  /\ wpc' = "idle"
  /\ wpath' = << >>
  /\ wstate' = EmptyState
  /\ UNCHANGED <<local, now, recently_synced, passVars, nenv, fsevents>>

\* start() has returned: the first full_sync is over, _init_delta_link has
\* saved the first cursor and the observer runs; the start counts as one of
\* the events of the run
Started(s) == [s EXCEPT !.db.delta_link = 1, !.spent = 1]

WatchInit == EngStart({Started(s) : s \in Situations}, [k \in {1} |-> {}])

\* the requests of the passes succeed while the watcher is looked at
Quiet ==
  Outcomes \ {"http_error", "raise", "partial", "oserror", "no_cursor"}

WatchNext ==
  \/ \E p \in BasePaths : \E c \in EnvContents(p) : UserWrite(p, c)
  \/ \E p \in Editable : UserDelete(p)
  \/ \E ev \in fsevents : WatchBegin(ev)
  \/ \E out \in Outcomes : WatchEnd(out)
  \/ \E p \in BasePaths : \E c \in EnvContents(p) : EnvRemoteWrite(p, c)
  \/ Tick
  \/ Second
  \/ FullBegin
  \/ \E out \in Quiet : RetryItem(out)
  \/ \E out \in Quiet : \E folder \in Folders : FullList(out, folder)
  \/ \E a \in actions : \E out \in Quiet : ExecAction(a, out)
  \/ FullCommit
  \/ \E out \in Quiet : DeltaBegin(out)
  \/ \E ch \in changes : \E out \in Quiet : ExecChange(ch, out)
  \/ DeltaCommit

(***************************************************************************)
(* sync_history.py: the history file.  A line is the number of its event.  *)
(***************************************************************************)
HistInit ==
  /\ hfile = << >>
  /\ hlock = 0
  /\ hpc = [t \in Loggers |-> "idle"]
  /\ hlines = [t \in Loggers |-> << >>]
  /\ hlogged = << >>
  /\ hgot = [lines |-> << >>, limit |-> 0, offset |-> 0, entries |-> << >>]

\* lines[-n:] for n > 0
LastLines(lines, n) ==
  IF Len(lines) <= n THEN lines
  ELSE SubSeq(lines, Len(lines) - n + 1, Len(lines))

\* reversed(lines)
Reversed(lines) == [i \in 1..Len(lines) |-> lines[Len(lines) - i + 1]]

\* entries[a : b] for a, b >= 0
Slice(entries, a, b) ==
  LET lo == IF a < Len(entries) THEN a ELSE Len(entries)
      hi == IF b < Len(entries) THEN b ELSE Len(entries)
  IN IF hi <= lo THEN << >> ELSE SubSeq(entries, lo + 1, hi)

\* log_event entered without `with _lock`
LogEnterNoLock(t) ==
  /\ UNCHANGED notHist
  /\ hpc[t] = "idle"
  /\ Len(hlogged) < MaxLogged
  /\ hpc' = [hpc EXCEPT ![t] = "append"]
  /\ UNCHANGED <<hfile, hlock, hlines, hlogged, hgot>>

\* log_event, line 28: with _lock
LogEnter(t) ==
  /\ UNCHANGED notHist
  /\ hpc[t] = "idle"
  /\ Len(hlogged) < MaxLogged
  /\ hlock = 0
  /\ hlock' = t
  /\ hpc' = [hpc EXCEPT ![t] = "append"]
  /\ UNCHANGED <<hfile, hlines, hlogged, hgot>>

\* lines 30-31: the line of the event is appended
LogAppend(t) ==
  /\ UNCHANGED notHist
  /\ hpc[t] = "append"
  /\ hfile' = Append(hfile, Len(hlogged) + 1)
  /\ hlogged' = Append(hlogged, Len(hlogged) + 1)
  /\ hpc' = [hpc EXCEPT ![t] = "read"]
  /\ UNCHANGED <<hlock, hlines, hgot>>

\* _rotate_if_needed, lines 62-63: the file is read
RotateRead(t) ==
  /\ UNCHANGED notHist
  /\ hpc[t] = "read"
  /\ hlines' = [hlines EXCEPT ![t] = hfile]
  /\ hpc' = [hpc EXCEPT ![t] = "write"]
  /\ UNCHANGED <<hfile, hlock, hlogged, hgot>>

\* lines 64-66: a file of more than MAX_ENTRIES lines is written again
\* with the last MAX_ENTRIES of the lines read; log_event leaves the lock
RotateWrite(t) ==
  /\ UNCHANGED notHist
  /\ hpc[t] = "write"
  /\ hfile' = IF Len(hlines[t]) > MAX_ENTRIES
              THEN LastLines(hlines[t], MAX_ENTRIES) ELSE hfile
  /\ hlock' = IF hlock = t THEN 0 ELSE hlock
  /\ hlines' = [hlines EXCEPT ![t] = << >>]
  /\ hpc' = [hpc EXCEPT ![t] = "idle"]
  /\ UNCHANGED <<hlogged, hgot>>

\* get_history, lines 37-58: the file is read under the lock, then the
\* lines are reversed and sliced
get_history(limit, offset) ==
  /\ UNCHANGED notHist
  /\ hlock = 0
  /\ hgot' = [lines |-> hfile, limit |-> limit, offset |-> offset,
              entries |-> Slice(Reversed(hfile), offset, offset + limit)]
  /\ UNCHANGED <<hfile, hlock, hpc, hlines, hlogged>>

HistNext ==
  \/ \E t \in Loggers : LogEnter(t)
  \/ \E t \in Loggers : LogAppend(t)
  \/ \E t \in Loggers : RotateRead(t)
  \/ \E t \in Loggers : RotateWrite(t)
  \/ \E limit \in 0..MaxAsk : \E offset \in 0..MaxAsk :
       get_history(limit, offset)

(***************************************************************************)
(* log_handler.py: SSELogHandler.  A record is its number.                 *)
(***************************************************************************)
HubInit ==
  /\ sse_history = << >>
  /\ sse_subscribers = << >>
  /\ sse_lock = 0
  /\ sq = [q \in SubIds |-> << >>]
  /\ subpc = [q \in SubIds |-> "none"]
  /\ nemit = 0
  /\ srecv = [q \in SubIds |-> << >>]
  /\ sdrop = [q \in SubIds |-> {}]
  /\ sold = [q \in SubIds |-> << >>]
  /\ ssince = [q \in SubIds |-> 0]

\* deque(maxlen).append
RingAppend(ring, entry) ==
  IF Len(ring) < maxlen THEN Append(ring, entry)
  ELSE Append(Tail(ring), entry)

Subscribed(q) == \E i \in 1..Len(sse_subscribers) : sse_subscribers[i] = q

\* list.remove(q)
Without(list, q) == SelectSeq(list, LAMBDA x : x # q)

\* emit, lines 26-41
emit ==
  /\ UNCHANGED notHub
  /\ nemit < MaxEmit
  /\ sse_lock = 0
  /\ nemit' = nemit + 1
  /\ sse_history' = RingAppend(sse_history, nemit + 1)
  /\ sq' = [q \in SubIds |->
             IF Subscribed(q) /\ Len(sq[q]) < maxsize
             THEN Append(sq[q], nemit + 1) ELSE sq[q]]
  /\ sdrop' = [q \in SubIds |->
                IF Subscribed(q) /\ Len(sq[q]) >= maxsize
                THEN sdrop[q] \cup {nemit + 1} ELSE sdrop[q]]
  /\ UNCHANGED <<sse_subscribers, sse_lock, subpc, srecv, sold, ssince>>

\* subscribe whose backfill is not under the lock
SubBeginNoLock(q) ==
  /\ UNCHANGED notHub
  /\ subpc[q] = "none"
  /\ sq' = [sq EXCEPT ![q] = Slice(sse_history, 0, maxsize)]
  /\ subpc' = [subpc EXCEPT ![q] = "backfilled"]
  /\ sold' = [sold EXCEPT ![q] = sse_history]
  /\ ssince' = [ssince EXCEPT ![q] = nemit]
  /\ UNCHANGED <<sse_history, sse_subscribers, sse_lock, nemit, srecv, sdrop>>

\* subscribe, lines 45-51: the queue is made and filled with _history
SubBegin(q) ==
  /\ UNCHANGED notHub
  /\ subpc[q] = "none"
  /\ sse_lock = 0
  /\ sse_lock' = q
  /\ sq' = [sq EXCEPT ![q] = Slice(sse_history, 0, maxsize)]
  /\ subpc' = [subpc EXCEPT ![q] = "backfilled"]
  /\ sold' = [sold EXCEPT ![q] = sse_history]
  /\ ssince' = [ssince EXCEPT ![q] = nemit]
  /\ UNCHANGED <<sse_history, sse_subscribers, nemit, srecv, sdrop>>

\* subscribe, lines 52-53: the queue joins _subscribers
SubAppend(q) ==
  /\ UNCHANGED notHub
  /\ subpc[q] = "backfilled"
  /\ sse_subscribers' = Append(sse_subscribers, q)
  /\ sse_lock' = IF sse_lock = q THEN 0 ELSE sse_lock
  /\ subpc' = [subpc EXCEPT ![q] = "subscribed"]
  /\ UNCHANGED <<sse_history, sq, nemit, srecv, sdrop, sold, ssince>>

\* unsubscribe, lines 55-61
unsubscribe(q) ==
  /\ UNCHANGED notHub
  /\ subpc[q] = "subscribed"
  /\ sse_lock = 0
  /\ sse_subscribers' = Without(sse_subscribers, q)
  /\ subpc' = [subpc EXCEPT ![q] = "gone"]
  /\ UNCHANGED <<sse_history, sse_lock, sq, nemit, srecv, sdrop, sold, ssince>>

\* app.py, /api/logs/stream: the generator takes a record from its queue
QueueGet(q) ==
  /\ UNCHANGED notHub
  /\ subpc[q] = "subscribed"
  /\ sq[q] # << >>
  /\ srecv' = [srecv EXCEPT ![q] = Append(srecv[q], Head(sq[q]))]
  /\ sq' = [sq EXCEPT ![q] = Tail(sq[q])]
  /\ UNCHANGED <<sse_history, sse_subscribers, sse_lock, subpc, nemit, sdrop, sold, ssince>>

HubNext ==
  \/ emit
  \/ \E q \in SubIds : SubBegin(q)
  \/ \E q \in SubIds : SubAppend(q)
  \/ \E q \in SubIds : unsubscribe(q)
  \/ \E q \in SubIds : QueueGet(q)

(***************************************************************************)
(* The specifications                                                      *)
(***************************************************************************)
AllInit == MgrInit /\ SaveInit /\ EngInit /\ WatchIdle /\ HistInit /\ HubInit

SpecMgr == AllInit /\ [][MgrNext]_vars

\* every pass ends (each request has a timeout and a bounded number of
\* retries, onedrive_api.py:322-392) and releases the lock; a sleeping poll
\* thread wakes (time.sleep(1), sync_manager.py:203-207); a thread that
\* waits for a threading.Lock that is free again and again gets it
MgrFairness ==
  /\ \A p \in PollIds :
       /\ WF_vars(PollWake(p))
       /\ SF_vars(PollAcquire(p))
       /\ WF_vars(PollPass(p))
  /\ \A t \in TrigIds : WF_vars(TrigPass(t))
  /\ \A c \in Callers : WF_vars(StartPass(c))

SpecMgrLive == AllInit /\ [][MgrNext]_vars /\ MgrFairness

SpecSave == AllInit /\ [][SaveNext]_vars

SpecEng == AllInit /\ [][EngNext]_vars

\* the passes of SyncManager._poll_loop (sync_manager.py:196-223), each one
\* a call of delta_sync, with no trigger_sync in between
PollNext ==
  \/ \E p \in BasePaths : \E c \in EnvContents(p) : EnvLocalWrite(p, c)
  \/ \E p \in Editable : EnvLocalDelete(p)
  \/ \E p \in BasePaths : \E c \in EnvContents(p) : EnvRemoteWrite(p, c)
  \/ \E p \in Editable : EnvRemoteDelete(p)
  \/ Tick
  \/ \E out \in Outcomes : RetryItem(out)
  \/ \E out \in Outcomes : \E folder \in Folders : FullList(out, folder)
  \/ \E a \in actions : \E out \in Outcomes : ExecAction(a, out)
  \/ FullCommit
  \/ \E out \in Outcomes : DeltaBegin(out)
  \/ \E ch \in changes : \E out \in Outcomes : ExecChange(ch, out)
  \/ DeltaCommit
  \/ \E out \in Outcomes : InitDeltaLink(out)

SpecPoll == AllInit /\ [][PollNext]_vars

\* the poll loop goes on (sync_manager.py:196-223) and a pass that has begun
\* runs to its end: every step of a pass is taken when it stays possible
PollFairness ==
  /\ WF_vars(\E out \in Outcomes : DeltaBegin(out))
  /\ WF_vars(\E ch \in changes : \E out \in Outcomes : ExecChange(ch, out))
  /\ WF_vars(DeltaCommit)
  /\ WF_vars(\E out \in Outcomes : RetryItem(out))
  /\ WF_vars(\E out \in Outcomes : \E folder \in Folders : FullList(out, folder))
  /\ WF_vars(\E a \in actions : \E out \in Outcomes : ExecAction(a, out))
  /\ WF_vars(FullCommit)

SpecPollLive == AllInit /\ [][PollNext]_vars /\ PollFairness

DamagedInit == MgrInit /\ LoadInit /\ EngInit /\ WatchIdle /\ HistInit /\ HubInit

SpecHist == AllInit /\ [][HistNext]_vars

SpecHub == AllInit /\ [][HubNext]_vars

SpecLoad == DamagedInit /\ [][SaveNext]_vars

RunningInit == MgrInit /\ SaveInit /\ WatchInit /\ WatchIdle /\ HistInit /\ HubInit

SpecWatch == RunningInit /\ [][WatchNext]_vars

(***************************************************************************)
(* C1: at any moment at most one reconciliation pass (the initial          *)
(* full_sync of start(), a triggered full_sync, a poll loop's delta_sync)  *)
(* is executing for the manager.                                           *)
(***************************************************************************)
PassesRunning ==
  {<<"start", c>> : c \in {x \in Callers : cpc[x] = "start_pass"}}
    \cup {<<"trig", t>> : t \in {x \in TrigIds : tpc[x] = "in_pass"}}
    \cup {<<"poll", p>> : p \in {x \in PollIds : ppc[x] = "in_pass"}}

C1_OnePassAtATime == Cardinality(PassesRunning) <= 1

\* a triggered pass and a poll thread both want the lock while the initial
\* sync of a second start() holds it
C1_Witness ==
  /\ \E c \in Callers : cpc[c] = "start_pass"
  /\ \E t \in TrigIds : tpc[t] = "wait_lock"
  /\ \E p \in PollIds : ppc[p] = "wait_lock"

(***************************************************************************)
(* C2: no local content is lost.  Whenever a step of a pass (full or       *)
(* delta, the retry queue included) overwrites or deletes a local file     *)
(* whose mtime is not the local_mtime recorded in state, or that has no    *)
(* state entry, the content the file had is found under a conflict name    *)
(* afterwards.                                                             *)
(***************************************************************************)
\* the files of a tree that carry a conflict name of path p
ConflictCopies(tree, p) ==
  {q \in DOMAIN tree : Len(q) = Len(p) + 1 /\ SubSeq(q, 1, Len(p)) = p}

Unrecorded(p) ==
  p \notin DOMAIN state.files \/ state.files[p].local_mtime # local[p].m

Clobbered(p) == p \notin DOMAIN local' \/ local'[p].c # local[p].c

\* a step of the program, not of the user
ProgramStep == nenv' = nenv

C2_Step ==
  ProgramStep =>
    \A p \in DOMAIN local :
      (Unrecorded(p) /\ Clobbered(p)) =>
        \E q \in ConflictCopies(local', p) : local'[q].c = local[p].c

C2_NoLocalContentLost == [][C2_Step]_vars

(***************************************************************************)
(* C3: when full_sync has emitted its actions, every in-scope path of      *)
(* R, L, S that matches one of the rows 1-5 of the table has exactly one   *)
(* action, the one of its row (R,L,S: sync_existing; R,S not L:            *)
(* local_deleted; L,S not R: remote_deleted; R only: download_new; L only: *)
(* upload_new), and no path is the target of two actions.                  *)
(***************************************************************************)
ActionsOn(p) == {a \in actions : a[2] = p}

C3_Row(p, R, L, S) ==
  IF p \in R /\ p \in L /\ p \in S THEN "sync_existing"
  ELSE IF p \in R /\ p \notin L /\ p \in S THEN "local_deleted"
  ELSE IF p \notin R /\ p \in L /\ p \in S THEN "remote_deleted"
  ELSE IF p \in R /\ p \notin L /\ p \notin S THEN "download_new"
  ELSE IF p \notin R /\ p \in L /\ p \notin S THEN "upload_new"
  ELSE None

C3_OneActionPerPath ==
  (epc = "acting" /\ done = {}) =>
    LET R == DOMAIN remote_files
        L == DOMAIN local_files
        S == DOMAIN state.files
    IN /\ \A p \in R \cup L \cup S :
            (is_in_sync_scope(RelPath(p)) /\ C3_Row(p, R, L, S) # None) =>
               ActionsOn(p) = {<<C3_Row(p, R, L, S), p>>}
       /\ \A a \in actions : \A b \in actions : a[2] = b[2] => a = b
       /\ \A a \in actions : a[2] \in R \cup L \cup S

\* a pass has emitted actions of two kinds and none has run yet
C3_Witness ==
  /\ epc = "acting"
  /\ done = {}
  /\ \E a \in actions : \E b \in actions : a[1] # b[1]

(***************************************************************************)
(* C4: in full_sync a path that is in the remote listing and in the local  *)
(* walk but has no state entry is handled as upload_new, and as nothing    *)
(* else.                                                                   *)
(***************************************************************************)
C4_UntrackedPairIsUploaded ==
  (epc = "acting" /\ done = {}) =>
    \A p \in (DOMAIN remote_files \cap DOMAIN local_files) \ DOMAIN state.files :
      is_in_sync_scope(RelPath(p)) => ActionsOn(p) = {<<"upload_new", p>>}

(***************************************************************************)
(* C5: when full_sync saves the state, a path that has a state entry and   *)
(* is neither in the remote listing nor in the local walk has been the     *)
(* target of no action and has no entry in the saved state.                *)
(***************************************************************************)
FullCommitStep == epc = "acting" /\ epc' = "idle"

C5_Step ==
  FullCommitStep =>
    \A p \in (DOMAIN state.files \ DOMAIN remote_files) \ DOMAIN local_files :
      /\ ActionsOn(p) = {}
      /\ p \notin DOMAIN db'.files

C5_OrphanEntryRemoved == [][C5_Step]_vars

(***************************************************************************)
(* C6: the conflict policy.  When a pass finds that a tracked path has     *)
(* changed on both sides and the local file is still there, the step that  *)
(* handles the path moves the local file to the conflict name of the       *)
(* current second, which then holds the previous local content, and        *)
(* touches no other local file; the state entry of the path is rewritten   *)
(* only after a download that succeeded, and then the original path holds  *)
(* the remote version; after a download that failed the original path is   *)
(* absent or holds a download that broke off.                              *)
(***************************************************************************)
\* the step runs _handle_conflict or _handle_conflict_delta on path p
ConflictStep(p) ==
  /\ p \in DOMAIN local
  /\ \/ /\ epc = "acting"
        /\ <<"sync_existing", p>> \in actions \ done
        /\ <<"sync_existing", p>> \in done'
        /\ Branch(p) = "conflict"
     \/ /\ epc = "delta"
        /\ \E ch \in changes \ changes' : ch.path = p /\ ~ch.deleted
        /\ DeltaConflict(p)

C6_Step ==
  \A p \in DOMAIN local :
    ConflictStep(p) =>
      LET copy == ConflictPath(p, now)
      IN /\ copy \in DOMAIN local'
         /\ local'[copy] = local[p]
         /\ \A q \in (DOMAIN local \cup DOMAIN local') \ {p, copy} :
              q \in DOMAIN local /\ q \in DOMAIN local' /\ local'[q] = local[q]
         /\ IF state'.files[p] # state.files[p]
            THEN /\ p \in DOMAIN local'
                 /\ p \in DOMAIN remote
                 /\ local'[p].c = remote[p].c
            ELSE p \notin DOMAIN local' \/ local'[p].c = Truncated

C6_ConflictCopyThenDownload == [][C6_Step]_vars

\* a conflict was resolved: the original path holds the remote version and
\* a conflict copy holds another content
C6_Witness ==
  /\ epc \in {"acting", "delta"}
  /\ \E p \in DOMAIN local \cap DOMAIN remote :
       /\ local[p].c = remote[p].c
       /\ p \in DOMAIN state.files
       /\ state.files[p].local_mtime = local[p].m
       /\ \E q \in ConflictCopies(local, p) : local[q].c # local[p].c

\* C6 as the specification words it: after the step exactly one new file
\* with a conflict name exists, it holds the previous local content, and
\* the original path exists with the content of the remote version
C6_AsStated_Step ==
  \A p \in DOMAIN local :
    ConflictStep(p) =>
      LET new == ConflictCopies(local', p) \ ConflictCopies(local, p)
      IN /\ Cardinality(new) = 1
         /\ \A q \in new : local'[q].c = local[p].c
         /\ p \in DOMAIN local'
         /\ p \in DOMAIN remote
         /\ local'[p].c = remote[p].c

C6_AsStated == [][C6_AsStated_Step]_vars

(***************************************************************************)
(* C7: no path that fails should_sync (ignored basename, state file,       *)
(* excluded folder, outside SYNC_FOLDERS) is a key of state.files, in the  *)
(* saved document or in the dict of the running pass, or the target of an  *)
(* action of full_sync or of a change that delta_sync handles.             *)
(***************************************************************************)
should_sync(rel_path) == ~should_ignore(rel_path) /\ is_in_sync_scope(rel_path)

C7_OnlySyncedPaths ==
  \A p \in DOMAIN db.files \cup DOMAIN state.files
             \cup {a[2] : a \in actions} \cup {ch.path : ch \in changes} :
    should_sync(RelPath(p))

(***************************************************************************)
(* C8: idempotence.  When a full_sync runs right after another full_sync   *)
(* with nothing happening outside the program in between, the files it is  *)
(* about to save are the files the first one saved.                        *)
(***************************************************************************)
C8_SecondPassChangesNothing ==
  (epc = "acting" /\ done = actions /\ back_to_back = "yes") =>
    state.files = db.files

(***************************************************************************)
(* C9: closure.  When a full_sync that counted no error saves the state,   *)
(* every key of the saved files is a file of the local tree and a file of  *)
(* the remote listing of the pass (or one that the pass put on the         *)
(* remote).                                                                *)
(***************************************************************************)
C9_Step ==
  (FullCommitStep /\ error_count = 0) =>
    \A p \in DOMAIN db'.files :
      /\ p \in DOMAIN local
      /\ p \in DOMAIN remote_files \/ p \in DOMAIN remote

C9_EntriesExistOnBothSides == [][C9_Step]_vars

(***************************************************************************)
(* C11: the retry queue holds at most one item per (path, action) pair:    *)
(* the saved queue, the queue of the running pass, and the list that       *)
(* _process_retry_queue is building.                                       *)
(***************************************************************************)
OnePerPair(q) ==
  \A i \in 1..Len(q) : \A j \in 1..Len(q) :
    (q[i].path = q[j].path /\ q[i].action = q[j].action) => i = j

C11_OneItemPerPair ==
  /\ OnePerPair(db.retry_queue)
  /\ OnePerPair(state.retry_queue)
  /\ OnePerPair(remaining)
  /\ OnePerPair(remaining \o queue)

\* an action failed a second time and add_retry found its item in the queue
C11_Witness ==
  /\ epc = "acting"
  /\ \E i \in 1..Len(state.retry_queue) :
       /\ state.retry_queue[i].attempts = 2
       /\ <<state.retry_queue[i].action, state.retry_queue[i].path>> \in done
       /\ state.retry_queue[i].next_retry > now

(***************************************************************************)
(* C12 - Retry backoff.  Whenever the attempts counter of a RetryItem      *)
(* becomes n - the first enqueue (n = 1), an upsert by add_retry or a      *)
(* failed retry - n is one more than the counter the item had (0 when it   *)
(* was not queued) and next_retry is now + min(2^n * 30, 1800) seconds (a  *)
(* pass that ends without saving leaves the saved items as they were);     *)
(* one step changes one item; a due item that is retried and stays queued  *)
(* has been raised, and so has the item of every action the pass counts    *)
(* as failed.                                                              *)
(***************************************************************************)
Items(q) == {q[i] : i \in 1..Len(q)}

\* the retry queue as the running pass has it, else as it is saved
CurQueue ==
  IF epc = "idle" THEN db.retry_queue
  ELSE IF epc = "retry" THEN remaining \o queue
  ELSE state.retry_queue

SamePair(q, it) == {o \in Items(q) : o.path = it.path /\ o.action = it.action}

AttemptsBefore(q, it) ==
  IF SamePair(q, it) = {} THEN 0 ELSE (CHOOSE o \in SamePair(q, it) : TRUE).attempts

C12_Step ==
  LET changed == Items(CurQueue') \ (Items(CurQueue) \cup Items(db.retry_queue))
  IN /\ Cardinality(changed) <= 1
     /\ \A it \in changed :
          /\ it.attempts = AttemptsBefore(CurQueue, it) + 1
          /\ it.next_retry = now + Min(Pow2(it.attempts) * 30, 1800)
     /\ (epc = "retry" /\ queue' # queue /\ Head(queue).attempts < 5
           /\ Head(queue).next_retry <= now)
          => Head(queue) \notin Items(CurQueue')
     /\ (epc = "acting" /\ error_count' = error_count + 1) => changed # {}

C13_Step ==
  /\ \A it \in Items(CurQueue') : it.attempts <= 5
  /\ \A it \in Items(CurQueue) :
       it.attempts >= 5 =>
         \A o \in SamePair(CurQueue', it) : o.attempts <= it.attempts

C13_RetryTerminates == [][C13_Step]_vars

(***************************************************************************)
(* C14 - The saved delta_link changes only when a delta query has          *)
(* succeeded and returned a new cursor, and only to that cursor: the       *)
(* commit of delta_sync, or the first cursor of _init_delta_link.  The     *)
(* commit of a full pass, the commit of a watcher handler, a fallback and  *)
(* a failed query leave it as it is, however handlers and passes           *)
(* interleave.                                                             *)
(***************************************************************************)
C14_Step ==
  db'.delta_link # db.delta_link =>
    \/ /\ epc = "delta"
       /\ epc' = "idle"
       /\ db'.delta_link = new_delta_link
    \/ /\ epc = "idle"
       /\ epc' = "idle"
       /\ wpc' = wpc
       /\ db.delta_link = NoLink
       /\ db'.delta_link \in DOMAIN since' \ DOMAIN since

C14_DeltaLinkOnlyByDelta == [][C14_Step]_vars

(***************************************************************************)
(* C15 - Commits of the state are made under the state mutex, which a pass *)
(* holds while it mutates the state: a watcher handler                     *)
(* (handle_local_change, handle_local_delete) never commits between the    *)
(* load and the commit of a pass.                                          *)
(***************************************************************************)
WatchCommitStep == wpc # "idle" /\ wpc' = "idle" /\ db' # db

C15_Step == WatchCommitStep => epc = "idle"

C15_CommitsUnderStateMutex == [][C15_Step]_vars

(***************************************************************************)
(* C16 - When the upload, download or remote delete of an action of a full *)
(* pass fails, the pass counts the action as an error (the history event   *)
(* with status error is written where error_count is raised) and add_retry *)
(* enqueues or raises the RetryItem of the path and action, once; the      *)
(* other actions of the pass are still executed, see C17.                  *)
(***************************************************************************)
\* an action of the pass ends with a failed request
FailedAction(a) ==
  /\ epc = "acting"
  /\ done' = done \cup {a}
  /\ a \notin done
  /\ a[1] # "remote_deleted"
  /\ nfault' = nfault + 1

C16_Step ==
  \A a \in actions :
    FailedAction(a) =>
      /\ error_count' = error_count + 1
      /\ \E it \in Items(state'.retry_queue) \ Items(state.retry_queue) :
           /\ it.path = a[2]
           /\ it.action = a[1]
           /\ it.attempts = AttemptsBefore(state.retry_queue, it) + 1

C16_FailureIsQueued == [][C16_Step]_vars

(***************************************************************************)
(* C17 - A failing action never makes the pass skip the action of another  *)
(* path.  In full_sync (loop or pool) the set of actions stays as it was   *)
(* planned, each step finishes one action that was not finished, and the   *)
(* pass ends only when every action has been executed; in delta_sync each  *)
(* step handles one change and the pass ends only when no change is left.  *)
(* Both hold whatever number of actions or changes have failed.            *)
(***************************************************************************)
C17_Step ==
  /\ (epc = "acting" /\ epc' = "acting") =>
       /\ actions' = actions
       /\ done \subseteq done'
       /\ done' \subseteq actions
       /\ Cardinality(done' \ done) <= 1
  /\ (epc = "acting" /\ epc' # "acting") => done = actions
  /\ (epc = "delta" /\ epc' = "delta") =>
       /\ changes' \subseteq changes
       /\ Cardinality(changes \ changes') <= 1
  /\ (epc = "delta" /\ epc' # "delta") => changes = {}

C17_NoActionSkipped == [][C17_Step]_vars

\* the action of one path has failed and is queued, the action of another
\* path has been executed in the same pass and the path is tracked
C17_Witness ==
  /\ epc = "acting"
  /\ error_count = 1
  /\ done = actions
  /\ \E a \in done : \E b \in done :
       /\ a[2] # b[2]
       /\ \E it \in Items(state.retry_queue) :
            it.path = a[2] /\ it.action = a[1]
       /\ b[1] \in {"download_new", "upload_new"}
       /\ b[2] \in DOMAIN state.files

(***************************************************************************)
(* C18 - Lifecycle preconditions.  start() goes on to its initial sync     *)
(* only when the manager is not running (and then the link was set and     *)
(* validated: it is connected and has no error); stop() and trigger_sync() *)
(* act only when it is running.  A call that returns a failure changes     *)
(* nothing of the manager but the reason it reports: no watcher, no poll   *)
(* thread, no trigger thread and no pass is started by it, and watchers    *)
(* and poll threads are started only at the end of an accepted start().    *)
(***************************************************************************)
Failures == {"already_running", "no_share_link", "validation_failed",
             "not_running"}

\* all of the manager but the value returned and the reason reported
lifecycle ==
  <<running, connected, observer, poll_thread, stop_event, sync_lock,
    consecutive_failures, cpc, tpc, ppc, watchers, notified>>

C18_Step ==
  /\ \A c \in Callers :
       /\ (cpc[c] = "idle" /\ cpc'[c] = "start_lock") =>
            ~running /\ connected' /\ error' = None
       /\ (cpc[c] = "idle" /\ cpc'[c] = "stop_join") => running
  /\ (\E t \in TrigIds : tpc[t] = "dead" /\ tpc'[t] # "dead") => running
  /\ (ret' # ret /\ ret' \in Failures) => UNCHANGED lifecycle
  /\ error' # error =>
       \/ ret' = "validation_failed" /\ UNCHANGED lifecycle
       \/ \E c \in Callers : cpc[c] = "idle" /\ cpc'[c] = "start_lock"
  /\ (\/ ~(watchers' \subseteq watchers)
      \/ \E p \in PollIds : ppc[p] = "dead" /\ ppc'[p] # "dead") =>
       \E c \in Callers : cpc[c] = "start_fin"

Stopped == ~running /\ \A c \in Callers : cpc[c] = "idle"

C19_NoPassAfterStop == Stopped => PassesRunning = {}

(***************************************************************************)
(* C20 - A trigger_sync() issued while a pass is in progress is ignored:   *)
(* the thread it makes never runs a full reconciliation, neither at once   *)
(* nor after the pass in progress has finished.                            *)
(***************************************************************************)
C20_BusyTriggerIgnored == \A t \in late : tpc[t] # "in_pass"

(***************************************************************************)
(* C21 - In a run of consecutive failing poll cycles one error             *)
(* notification is sent, at the third failure, however long the run goes   *)
(* on: the number of notifications of the run is 0 before the third        *)
(* failure and 1 from then on.                                             *)
(***************************************************************************)
C21_OneNotificationPerRun ==
  notified = IF consecutive_failures >= 3 THEN 1 ELSE 0

(***************************************************************************)
(* C22 - Debounce.  When the observer thread takes an event for a path     *)
(* that was marked less than 3 seconds ago, the handler returns at once:   *)
(* no upload, no remote delete, no commit.  When the mark is 3 seconds old *)
(* or older, or there is none, and the path is a file to sync, the handler *)
(* goes on to load the state.                                              *)
(***************************************************************************)
MarkedWithin(p, secs) ==
  p \in DOMAIN recently_synced /\ now - recently_synced[p] < secs

C22_Step ==
  \A ev \in fsevents :
    (wpc = "idle" /\ fsevents' = fsevents \ {ev}) =>
      IF MarkedWithin(ev[2], 3)
      THEN wpc' = "idle" /\ db' = db /\ remote' = remote
      ELSE (/\ should_sync(RelPath(ev[2]))
            /\ (ev[1] = "change" => ev[2] \in DOMAIN local))
             => wpc' = ev[1] /\ wpath' = ev[2]

C22_Debounce == [][C22_Step]_vars

\* a file the engine downloaded was edited within the window, the event has
\* been taken and no handler runs
C22_Witness ==
  /\ fsevents = {}
  /\ wpc = "idle"
  /\ epc = "idle"
  /\ nfault = 0
  /\ \E p \in DOMAIN local :
       /\ MarkedWithin(p, 3)
       /\ now - recently_synced[p] = 2
       /\ p \in DOMAIN db.files
       /\ local[p].m # db.files[p].local_mtime

(***************************************************************************)
(* C23 - Hash short-circuit.  When a full pass executes sync_existing for  *)
(* a tracked file of which only the local mtime differs from the state,    *)
(* while the remote file is the one of the entry and the local content is  *)
(* the remote content, nothing is uploaded and nothing is downloaded,      *)
(* whichever operation created the FileEntry.                              *)
(***************************************************************************)
\* the file of action a was touched: new local mtime, same content, remote
\* side as recorded
Touched(a) ==
  /\ a[1] = "sync_existing"
  /\ a[2] \in DOMAIN local /\ a[2] \in DOMAIN remote
  /\ local[a[2]] = [c |-> remote[a[2]].c, m |-> local_files[a[2]].mtime]
  /\ remote[a[2]].m = remote_files[a[2]].lastModifiedDateTime
  /\ LocalChanged(a[2])
  /\ ~RemoteChanged(a[2])

C23_Step ==
  \A a \in actions :
    (epc = "acting" /\ a \notin done /\ done' = done \cup {a} /\ Touched(a))
      => local' = local /\ remote' = remote

C23_HashSkipForEveryEntry == [][C23_Step]_vars

(***************************************************************************)
(* C24 - A delete action of a full pass removes the FileEntry of its path  *)
(* only when the deletion on the other side succeeded: after a             *)
(* local_deleted action that removed the entry the remote file is gone,    *)
(* and after a remote_deleted action that removed it the local file is     *)
(* gone.                                                                   *)
(***************************************************************************)
C24_Step ==
  \A a \in actions :
    (/\ epc = "acting"
     /\ a \notin done
     /\ done' = done \cup {a}
     /\ a[2] \in DOMAIN state.files
     /\ a[2] \notin DOMAIN state'.files)
      => /\ a[1] = "local_deleted" => a[2] \notin DOMAIN remote'
         /\ a[1] = "remote_deleted" => a[2] \notin DOMAIN local'

C24_EntryOutlivesFailedDelete == [][C24_Step]_vars

(***************************************************************************)
(* C25 - A pass that starts without a stored delta_link, with a cursor the *)
(* server no longer knows, or with a delta query that raises, fails or     *)
(* brings no new cursor, is a full reconciliation: it starts in full mode  *)
(* with no change of the delta answer kept, nothing is applied by the      *)
(* step, and until it ends the pass handles no delta change and leaves the *)
(* stored delta_link as it was.                                            *)
(***************************************************************************)
C25_Step ==
  /\ (/\ epc = "idle"
      /\ epc' # "idle"
      /\ \/ db.delta_link = NoLink
         \/ db.delta_link \notin DOMAIN since
         \/ nfault' # nfault)
       => /\ mode' = "full"
          /\ epc' \in {"retry", "list"}
          /\ changes' = {}
          /\ state' = db
          /\ local' = local
          /\ db' = db
  /\ (mode = "full" /\ epc # "idle")
       => /\ epc' # "delta"
          /\ changes' = {}
          /\ db'.delta_link = db.delta_link

C25_DeltaFallsBack == [][C25_Step]_vars

\* a full pass has begun although a cursor with pending changes is stored,
\* after the one failed request of the run
C25_Witness ==
  /\ mode = "full"
  /\ epc = "list"
  /\ db.delta_link \in DOMAIN since
  /\ since[db.delta_link] # {}
  /\ nfault = 1
  /\ back_to_back = "no"

(***************************************************************************)
(* C26 - A poll cycle that runs delta_sync without a stored delta_link,    *)
(* while the remote answers every request, records a cursor: when the      *)
(* pass has executed all its actions without an error and commits, the     *)
(* persisted delta_link is not null.                                       *)
(***************************************************************************)
C26_Step ==
  (/\ epc = "acting"
   /\ epc' = "idle"
   /\ done = actions
   /\ error_count = 0)
    => db'.delta_link # NoLink

C26_PollRecordsCursor == [][C26_Step]_vars

(***************************************************************************)
(* C27 - load_state on a state file that does not parse copies the file at *)
(* the path to {path}.corrupt.{UTC stamp}, leaves the path and every other *)
(* file as they are, and returns the empty state; on a missing file it     *)
(* returns the empty state and creates no file.                            *)
(***************************************************************************)
\* load_state returns after reading a text that json.load rejects
CorruptReturn ==
  /\ rpc = "reading"
  /\ rpc' = "idle"
  /\ spc' = spc
  /\ ~Parses(rbuf)

\* load_state is called and there is no state file
MissingReturn ==
  /\ rpc = "idle"
  /\ rres' # rres \/ rpc' # rpc
  /\ files[StatePath] = NoFile

C27_Step ==
  /\ CorruptReturn =>
       /\ rres' = "corrupt"
       /\ files' = [files EXCEPT ![BackupName] = files[StatePath]]
  /\ MissingReturn =>
       /\ rres' = "empty"
       /\ rpc' = "idle"
       /\ files' = files

C27_CorruptIsCopied == [][C27_Step]_vars

\* as stated: the corrupt document is moved, the path no longer holds it
C27_MovedStep ==
  CorruptReturn =>
    /\ rres' = "corrupt"
    /\ files'[BackupName] = files[StatePath]
    /\ files'[StatePath] = NoFile

C27_AsStated == [][C27_MovedStep]_vars

\* a truncated state file has been read and backed up, and is still there
C27_Witness ==
  /\ rres = "corrupt"
  /\ rpc = "idle"
  /\ files[BackupName] # NoFile
  /\ ~Parses(files[BackupName])
  /\ files[StatePath] = files[BackupName]

(***************************************************************************)
(* C28 - Retry processing updates the state after a success: when the      *)
(* retry of a due download item with attempts < 5 has fetched the remote   *)
(* file, the path has a FileEntry; when the retry of a due upload item has *)
(* sent the local file, the path has a FileEntry; when the retry of a due  *)
(* delete item has removed the remote file, the path has none.             *)
(***************************************************************************)
\* the loop of _process_retry_queue handles the due item it
RetryOf(it) ==
  /\ epc = "retry"
  /\ queue # << >>
  /\ it = Head(queue)
  /\ queue' = Tail(queue)
  /\ it.attempts < 5
  /\ it.next_retry <= now
  /\ nfault' = nfault

C28_Step ==
  \A it \in Items(queue) :
    RetryOf(it) =>
      /\ (/\ it.action \in {"download_new", "download"}
          /\ it.path \in DOMAIN remote)
           => it.path \in DOMAIN state'.files
      /\ (/\ it.action \in {"upload_new", "upload"}
          /\ it.path \in DOMAIN local)
           => it.path \in DOMAIN state'.files
      /\ it.action \in {"local_deleted", "delete"}
           => it.path \notin DOMAIN state'.files

C28_RetrySuccessUpdatesState == [][C28_Step]_vars

(***************************************************************************)
(* C29 - Every write path of _sync_existing marks its path as recently     *)
(* synced: when a sync_existing action has renamed, written or uploaded    *)
(* the file of its path, the path carries a mark of the present moment.    *)
(***************************************************************************)
C29_Step ==
  \A a \in actions :
    (/\ epc = "acting"
     /\ a \notin done
     /\ done' = done \cup {a}
     /\ a[1] = "sync_existing"
     /\ local' # local \/ remote' # remote)
      => /\ a[2] \in DOMAIN recently_synced'
         /\ recently_synced'[a[2]] = now

C29_WritePathsMark == [][C29_Step]_vars

(***************************************************************************)
(* C30 - _sync_existing with a change on one side.  Unless both recorded   *)
(* hashes are the present ones (then nothing is transferred and the entry  *)
(* takes the listed mtimes): when only the remote mtime differs the file   *)
(* is downloaded and on success the entry records the local mtime read     *)
(* after the download and the listed remote size and mtime; when only the  *)
(* local mtime differs the file is uploaded and on success the entry       *)
(* records the mtime the server returned.  When neither differs nothing is *)
(* transferred and the entry stays; when the transfer fails the entry      *)
(* stays.                                                                  *)
(***************************************************************************)
\* the pass executes the sync_existing action a
ExecExisting(a) ==
  /\ epc = "acting"
  /\ a \notin done
  /\ done' = done \cup {a}
  /\ a[1] = "sync_existing"

\* the step of a download of p that succeeded
Downloaded(p) ==
  /\ p \in DOMAIN remote
  /\ nfault' = nfault
  /\ p \in DOMAIN local'
  /\ local' # local
  /\ local'[p].c = remote[p].c

\* the step of an upload of p that succeeded
Uploaded(p) ==
  /\ p \in DOMAIN local
  /\ nfault' = nfault
  /\ p \in DOMAIN remote'
  /\ remote' # remote
  /\ remote'[p].c = local[p].c

C30_OneSide(p) ==
  /\ (RemoteChanged(p) /\ ~LocalChanged(p)) =>
       /\ remote' = remote
       /\ IF p \in DOMAIN remote /\ nfault' = nfault
          THEN /\ Downloaded(p)
               /\ state'.files[p].local_mtime = local'[p].m
               /\ state'.files[p].size = remote_files[p].size
               /\ state'.files[p].remote_mtime =
                    remote_files[p].lastModifiedDateTime
          ELSE state'.files[p] = state.files[p]
  /\ (LocalChanged(p) /\ ~RemoteChanged(p)) =>
       /\ local' = local
       /\ IF p \in DOMAIN local /\ nfault' = nfault
          THEN /\ Uploaded(p)
               /\ state'.files[p].remote_mtime = remote'[p].m
          ELSE state'.files[p] = state.files[p]
  /\ (~LocalChanged(p) /\ ~RemoteChanged(p)) =>
       /\ local' = local
       /\ remote' = remote
       /\ state'.files = state.files

C30_Step ==
  \A a \in actions :
    ExecExisting(a) =>
      IF HashSkip(a[2])
      THEN /\ local' = local
           /\ remote' = remote
           /\ state'.files[a[2]].local_mtime = local_files[a[2]].mtime
           /\ state'.files[a[2]].remote_mtime =
                remote_files[a[2]].lastModifiedDateTime
      ELSE C30_OneSide(a[2])

C30_OneSidedChange == [][C30_Step]_vars

\* as stated: every one-sided change is transferred
C30_AsStatedStep == \A a \in actions : ExecExisting(a) => C30_OneSide(a[2])

C30_AsStated == [][C30_AsStatedStep]_vars

\* a remote change of a tracked file has been downloaded by the running
\* pass: the entry has the remote mtime of the listing and the local mtime
\* the download left, and the file was not changed locally
C30_Witness ==
  /\ epc = "acting"
  /\ nfault = 0
  /\ \E a \in done :
       /\ a[1] = "sync_existing"
       /\ a[2] \in DOMAIN db.files
       /\ a[2] \in DOMAIN state.files
       /\ a[2] \in DOMAIN local
       /\ db.files[a[2]].local_mtime = local_files[a[2]].mtime
       /\ db.files[a[2]].remote_mtime # remote_files[a[2]].lastModifiedDateTime
       /\ state.files[a[2]].remote_mtime = remote_files[a[2]].lastModifiedDateTime
       /\ state.files[a[2]].local_mtime = local[a[2]].m
       /\ local[a[2]].m # local_files[a[2]].mtime

(***************************************************************************)
(* C31 - The change loop of delta_sync.  Only changes of paths that are    *)
(* neither ignored nor out of scope are handled.  Handling a deleted       *)
(* change removes the local file, if there is one, and the state entry.    *)
(* Handling a created or modified change of a tracked path whose local     *)
(* file has an mtime other than the recorded local_mtime keeps the local   *)
(* file under a conflict name; otherwise no conflict copy is made, the     *)
(* remote file is downloaded and its entry is recorded.  Local files of    *)
(* other paths (the conflict name of the second apart) and state entries   *)
(* of other paths stay as they are.                                        *)
(***************************************************************************)
\* the loop handles the change ch
ChangeStep(ch) ==
  /\ epc = "delta"
  /\ ch \in changes
  /\ changes' = changes \ {ch}

\* what the handling of ch does to its own path when nothing fails
C31_Applied(ch) ==
  LET p == ch.path
  IN IF ch.deleted
     THEN /\ DOMAIN local' = DOMAIN local \ {p}
          /\ p \notin DOMAIN state'.files
     ELSE IF DeltaConflict(p)
     THEN /\ ConflictPath(p, now) \in DOMAIN local'
          /\ local'[ConflictPath(p, now)] = local[p]
     ELSE /\ DOMAIN local' \subseteq DOMAIN local \cup {p}
          /\ p \in DOMAIN remote =>
               /\ p \in DOMAIN local'
               /\ local'[p].c = remote[p].c
               /\ p \in DOMAIN state'.files
               /\ state'.files[p].local_mtime = local'[p].m
               /\ state'.files[p].remote_mtime = ch.lastModifiedDateTime
               /\ state'.files[p].size = ch.size

C31_Step ==
  \A ch \in changes :
    ChangeStep(ch) =>
      /\ should_sync(RelPath(ch.path))
      /\ \A q \in DOMAIN local \ {ch.path, ConflictPath(ch.path, now)} :
           q \in DOMAIN local' /\ local'[q] = local[q]
      /\ \A q \in (DOMAIN state.files \cup DOMAIN state'.files) \ {ch.path} :
           /\ q \in DOMAIN state.files
           /\ q \in DOMAIN state'.files
           /\ state'.files[q] = state.files[q]
      /\ nfault' = nfault => C31_Applied(ch)

C33_Expected ==
  LET n == Len(hgot.lines)
      left == IF n > hgot.offset THEN n - hgot.offset ELSE 0
      k == IF left < hgot.limit THEN left ELSE hgot.limit
  IN [i \in 1..k |-> hgot.lines[n - hgot.offset - i + 1]]

C33_HistoryLog ==
  /\ hlock = 0 =>
       /\ Len(hfile) <= MAX_ENTRIES
       /\ hfile = [i \in 1..Len(hfile) |->
                     hlogged[Len(hlogged) - Len(hfile) + i]]
       /\ Len(hfile) = IF Len(hlogged) < MAX_ENTRIES THEN Len(hlogged)
                       ELSE MAX_ENTRIES
  /\ hgot.entries = C33_Expected

\* the file has been rotated, both threads have logged, and get_history
\* has skipped one entry and returned two
C33_Witness ==
  /\ hlock = 0
  /\ Len(hlogged) = MaxLogged
  /\ Len(hfile) = MAX_ENTRIES
  /\ hgot.lines = hfile
  /\ hgot.offset = 1
  /\ hgot.limit = 2
  /\ Len(hgot.entries) = 2

(***************************************************************************)
(* C34 - The log stream hub.  _history never holds more than maxlen        *)
(* records and a queue never more than maxsize.  What a subscriber has     *)
(* taken from its queue followed by what is still in it is _history as it  *)
(* was when subscribe was called, followed by every record emitted since   *)
(* then and until unsubscribe, in order and once, except the records that  *)
(* found that queue full.  A record that finds a queue full still reaches  *)
(* _history and every other subscriber whose queue has room.  After        *)
(* unsubscribe nothing is put on the queue.                                *)
(***************************************************************************)
Stream(q) == srecv[q] \o sq[q]

RECURSIVE Upto(_, _)
Upto(a, b) == IF a > b THEN << >> ELSE <<a>> \o Upto(a + 1, b)

C34_Inv ==
  /\ Len(sse_history) <= maxlen
  /\ \A q \in SubIds :
       /\ Len(sq[q]) <= maxsize
       /\ subpc[q] = "subscribed" =>
            Stream(q) = sold[q] \o SelectSeq(Upto(ssince[q] + 1, nemit), LAMBDA r : r \notin sdrop[q])

C34_Step ==
  /\ nemit' = nemit + 1 =>
       /\ sse_history'[Len(sse_history')] = nemit'
       /\ \A q \in SubIds :
            IF subpc[q] = "subscribed" /\ Len(sq[q]) < maxsize
            THEN sq'[q] = Append(sq[q], nemit')
            ELSE sq'[q] = sq[q]
  /\ \A q \in SubIds :
       subpc[q] = "gone" => sq'[q] = sq[q] /\ subpc'[q] = "gone"

C34_LogStreamHub == [][C34_Inv' /\ C34_Step]_vars

\* a record is dropped for a subscriber whose queue is full while the
\* other subscriber, who came later, gets it
C34_Witness ==
  /\ sdrop[1] # {}
  /\ subpc[1] = "subscribed"
  /\ subpc[2] = "subscribed"
  /\ sold[2] # << >>
  /\ \E r \in sdrop[1] : \E i \in 1..Len(Stream(2)) : Stream(2)[i] = r

(***************************************************************************)
(* C35 - The program deletes a remote file whose local file is absent only *)
(* if it was the user who removed the local file.  (user_removed keeps a   *)
(* path until the user writes it again, so a file the program brought back *)
(* and renamed afterwards is not counted against the program.)             *)
(***************************************************************************)
C35_Step ==
  ProgramStep =>
    \A p \in (DOMAIN remote \ DOMAIN remote') \ DOMAIN local :
      p \in user_removed

C35_DeleteOnlyAfterUserRemoval == [][C35_Step]_vars

(***************************************************************************)
(* C36 - When delta_sync saves a delta_link other than the one it started  *)
(* from, no change of the batch has raised, or the state it saves holds a  *)
(* retry item that the state before did not hold.                          *)
(***************************************************************************)
C36_Step ==
  (/\ epc = "delta"
   /\ epc' = "idle"
   /\ db'.delta_link # db.delta_link)
  => \/ error_count = 0
     \/ Items(db'.retry_queue) \ Items(db.retry_queue) # {}

C36_CursorWaitsForFailedChange == [][C36_Step]_vars

(***************************************************************************)
(* C37 - No lost update between the watcher and a pass.  When a full pass  *)
(* commits, the entry of every path it had no action and no retry item for *)
(* is in the saved state as it was in the state file just before; when a   *)
(* watcher handler commits, the entry of every path other than its own is  *)
(* in the saved state as it was in the state file just before.             *)
(***************************************************************************)
SavedEntry(doc, p) == IF p \in DOMAIN doc.files THEN <<doc.files[p]>> ELSE << >>

PassPaths ==
  {a[2] : a \in actions}
    \cup {it.path : it \in Items(state.retry_queue) \cup Items(db.retry_queue)}

C37_Step ==
  /\ (epc = "acting" /\ epc' = "idle") =>
       \A p \in (DOMAIN db.files \cup DOMAIN db'.files) \ PassPaths :
         SavedEntry(db', p) = SavedEntry(db, p)
  /\ WatchCommitStep =>
       \A p \in (DOMAIN db.files \cup DOMAIN db'.files) \ {wpath} :
         SavedEntry(db', p) = SavedEntry(db, p)

C37_NoLostUpdate == [][C37_Step]_vars

(***************************************************************************)
(* C38 - At any time at most one poll-loop thread of the manager is alive  *)
(* and at most one observer runs.                                          *)
(***************************************************************************)
LivePolls == {p \in PollIds : ppc[p] # "dead"}

C38_OnePollOneWatcher ==
  /\ Cardinality(LivePolls) <= 1
  /\ Cardinality(watchers) <= 1

(***************************************************************************)
(* C39 - While the poll loop goes on, a retry item of the saved queue that *)
(* is due (its next_retry has come) does not stay as it is for ever: it is *)
(* removed or saved again with one more attempt and a later next_retry.    *)
(***************************************************************************)
DueWith(n) ==
  \E it \in Items(db.retry_queue) : it.attempts = n /\ it.next_retry <= now

C39_RetryItemsLeave == \A n \in 0..5 : DueWith(n) ~> ~DueWith(n)

(***************************************************************************)
(* C40 - When the remote listing of full_sync fails (the call raises, or   *)
(* the request for a folder is answered with an error), the pass has no    *)
(* remote_deleted action: it deletes no local file and removes no entry    *)
(* for a path that is missing from the listing.                            *)
(***************************************************************************)
C40_Step ==
  (epc = "list" /\ nfault' = nfault + 1) =>
    \A a \in actions' : a[1] # "remote_deleted"

C40_FailedListingDeletesNothing == [][C40_Step]_vars

(***************************************************************************)
(* C10: save_state is atomic.  At every step of a save, a crash included,  *)
(* the file at the target path holds a whole document, and it changes only *)
(* by os.replace, from the whole previous document to the whole new one;   *)
(* load_state never reads a text that does not parse; and when a save      *)
(* raises, its temp file is gone.                                          *)
(***************************************************************************)
TargetText == files[StatePath]

C10_TargetWhole ==
  /\ TargetText # NoFile => Parses(TargetText)
  /\ rres # "corrupt"

C10_Step ==
  /\ TargetText' # TargetText =>
       \E s \in Savers : /\ spc[s] = "written" /\ sres'[s] = "returned"
                         /\ TargetText' = Doc(sver[s])
  /\ \A s \in Savers :
       (spc[s] # "idle" /\ spc'[s] = "idle" /\ sres'[s] # "killed") =>
          /\ files'[stmp[s]] = NoFile
          /\ sres'[s] = "returned" => TargetText' = Doc(sver[s])
          /\ sres'[s] # "returned" => sres'[s] = "raised" /\ TargetText' = TargetText

C10_SaveAtomic == []C10_TargetWhole /\ [][C10_Step]_vars

\* a reader is in the middle of the previous document, which has been
\* replaced meanwhile, and a saver has written part of a third one
C10_Witness ==
  /\ rpc = "reading" /\ Len(rbuf) = 1 /\ rold # Live
  /\ \E s \in Savers : /\ spc[s] = "opened" /\ Len(files[stmp[s]]) = 1
                       /\ TargetText # Doc(sver[s])

=============================================================================
